---------------------------- MODULE Spec2Model ----------------------------
(***************************************************************************)
(* Scheduling and process-supervision subsystem of cv2-from-scratch:       *)
(*   - TaskOrchestrator.execute_workflow  (src/automation/orchestrator.py) *)
(*   - JobScheduler, basic loop           (src/automation/scheduler.py)    *)
(*   - ProcessManager                     (src/automation/processes.py)    *)
(* Each component has its own specification (WfSpec, SchedSpec, ProcSpec); *)
(* the variables of the other components stay at their initial values.     *)
(***************************************************************************)
EXTENDS Integers, Sequences, FiniteSets, TLC

VARIABLES
    \* ---- TaskOrchestrator ----
    workflows,       \* self.workflows: workflow id -> WorkflowDefinition
    workflow,        \* the tasks of the WorkflowDefinition execute_workflow looked
                     \* up: Seq of [id, deps]
    wf_known,        \* workflow_id in self.workflows, as execute_workflow found it
    wf_pc,           \* "idle" | "loop" | "await" | "done"
    wf_i,            \* index of the task the for loop handles next
    executed_tasks,  \* the local set executed_tasks
    results,         \* the local dict results: task id -> result kind
    wf_ran,          \* indices of the tasks execute_task was called for
    wf_ok,           \* indices of the tasks whose execute_task returned success
    wf_ret,          \* the dict execute_workflow returned
    \* ---- JobScheduler (basic loop, no APScheduler) ----
    running,         \* self.running
    loops,           \* wake-up times of the live _basic_scheduler_loop tasks
    jobs,            \* self.jobs: job id -> JobConfig
    executions,      \* self.executions: job id -> list of JobExecution
    job_functions,   \* names registered in self.job_functions
    launched,        \* job id -> _execute_job tasks created and not yet started
    inflight,        \* _execute_job coroutines suspended in an async handler
    saved,           \* content of jobs.json
    nextEid,         \* next execution id (uuid4 in the code)
    now,             \* the clock
    calls,           \* administrative calls made so far
    lastCall,        \* the call that made the last step, and what it returned
    \* ---- ProcessManager ----
    build,           \* which optional imports of processes.py succeeded
    pm_running,      \* self.running
    processes,       \* self.processes: process id -> ProcessInfo
    monitors,        \* self.monitors: process id -> _monitor_process task
    health_checkers, \* self.health_checkers: process id -> _health_check_process task
    alive,           \* pids of the native processes that exist
    termed,          \* pids whose process group was sent SIGTERM
    owner,           \* pid -> id of the process it was spawned for
    mon,             \* pid -> state of the _monitor_process task of that spawn
    hc,              \* pid -> state of the _health_check_process task of that spawn
    starts,          \* process id -> manual start_process calls suspended in the spawn
                     \* that hold the object the registry has
    stop_calls,      \* the stop_process calls suspended between two checks
    stale,           \* ProcessInfo objects the registry has replaced or deleted while
                     \* a task or call held them, with the start_process calls on them
    mon_ref,         \* pid -> the ProcessInfo the monitor (or its start_process) holds
    hc_ref,          \* pid -> the ProcessInfo the health checker holds
    auto_restarts,   \* process id -> restarts by the monitor since the last manual start
    stop_ok,         \* process id -> stop_process returned True and no start was requested since
    proc_file,       \* content of processes.json
    pLast,           \* the ProcessManager step that was taken last
    pm_calls,        \* calls of the ProcessManager interface a caller with a budget made
    \* ---- CronManager ----
    cron_jobs,       \* self.jobs: job id -> CronJob
    cron_running,    \* self.is_running
    cron_wake,       \* wake-up time of the _scheduler_loop task, NoTime without one
    cron_tasks,      \* CronJob object -> _execute_job tasks created for it, not yet run
    cron_objs,       \* CronJob objects constructed so far
    cron_now,        \* datetime.now(), in seconds
    cron_calls,      \* calls of the CronManager interface made so far
    cron_last,       \* the CronManager step that was taken last
    task_registry,   \* names registered in self.task_registry
    \* ---- BackgroundProcessor ----
    bg_objects,      \* the BackgroundProcess objects constructed so far
    bg_processes,    \* self.processes: the objects in the dict, in its order
    bg_tasks,        \* the tasks _start_process has created
    bg_running,      \* self.is_running
    bg_monitors,     \* the _monitor_loop tasks start() has created
    bg_monitor_task, \* self.monitor_task: one of them, 0 for None
    bg_suspended,    \* the suspended calls of stop, stop_process, restart_process
    bg_calls,        \* calls of the BackgroundProcessor interface made so far
    bg_last          \* the BackgroundProcessor step that was taken last

schedVars == <<running, loops, jobs, executions, job_functions, launched,
               inflight, saved, nextEid, now, calls, lastCall>>

wfVars == <<workflows, workflow, wf_known, wf_pc, wf_i, executed_tasks, results,
            wf_ran, wf_ok, wf_ret>>

procVars == <<build, pm_running, processes, stale, monitors, health_checkers, alive,
              termed, owner, mon, mon_ref, hc, hc_ref, starts, stop_calls, auto_restarts,
              stop_ok, proc_file, pLast, pm_calls>>

cronVars == <<cron_jobs, cron_running, cron_wake, cron_tasks, cron_objs, cron_now,
              cron_calls, cron_last, task_registry>>

bgVars == <<bg_objects, bg_processes, bg_tasks, bg_running, bg_monitors,
           bg_monitor_task, bg_suspended, bg_calls, bg_last>>

None == "none"

(***************************************************************************)
(*                      TaskOrchestrator.execute_workflow                  *)
(***************************************************************************)

\* Longest workflow the model draws.
MaxTasks == 3

TaskIds == {"A", "B", "C"}

\* TaskDefinition.dependencies: None/empty, one id, or every id.
DepSets == {{}} \cup {{t} : t \in TaskIds} \cup {TaskIds}

TaskDefs == [id : TaskIds, deps : DepSets]

RECURSIVE SeqsUpTo(_, _)
SeqsUpTo(S, n) ==
    IF n = 0 THEN {<< >>}
    ELSE LET shorter == SeqsUpTo(S, n - 1)
         IN  shorter \cup {Append(s, x) : s \in {q \in shorter : Len(q) = n - 1}, x \in S}

Workflows == SeqsUpTo(TaskDefs, MaxTasks)

\* mutant: the dependency check never finds anything missing
MissingDepsNone(task, executed) == {}

\* set(task.dependencies) - executed_tasks
MissingDeps(task, executed) == task.deps \ executed

\* mutant: a failed task is recorded as executed too
ExecutedAfterAlways(executed, id, success) == executed \cup {id}

\* if result.get("success"): executed_tasks.add(task.task_id)
ExecutedAfter(executed, id, success) ==
    IF success THEN executed \cup {id} ELSE executed

\* What execute_task can return for a task: {"success": True, ...} or
\* {"success": False, "error": ...} (task not found, unsupported type, a
\* collaborator missing or failing, an exception caught at line 395).
ExecuteTaskOutcomes == BOOLEAN

\* sum(1 for r in results.values() if r.get("success"))
SuccessCount(res) == Cardinality({t \in DOMAIN res : res[t] = "ok"})

\* The workflow id of the model: create_workflow_from_text names a workflow
\* f"workflow_{int(time.time())}", the second of the call.
WfId == "workflow_0"

\* WorkflowDefinition(workflow_id, name, description, tasks, schedule);
\* schedule << >> is None
WorkflowDefinition(tasks, schedule) == [tasks |-> tasks, schedule |-> schedule]

\* The task lists parse_natural_language returns for the texts the model
\* passes to create_workflow_from_text (no text names a schedule):
\*   "scrape https://a.example/x"                              one task
\*   "scrape https://a.example/x and scrape https://a.example/x"
\*       two tasks with one id, scraping_{hash(url)}_{second} (line 207)
\*   "scrape https://a.example/x and check twitter"      scraping, monitoring
\*   a text an LLM client answers with two tasks, the first depending on
\*       the second (lines 149-161)
ParsedTexts ==
    { << [id |-> "A", deps |-> {}] >>,
      << [id |-> "A", deps |-> {}], [id |-> "A", deps |-> {}] >>,
      << [id |-> "A", deps |-> {}], [id |-> "B", deps |-> {}] >>,
      << [id |-> "A", deps |-> {"B"}], [id |-> "B", deps |-> {}] >> }

\* TaskOrchestrator after __init__ and the writes to self.workflows that
\* set it up: no workflow, or the workflow of the model with one of the
\* task lists and schedules given
WfInitWith(lists, schedules) ==
    /\ workflows \in {<< >>} \cup
          {[id \in {WfId} |-> WorkflowDefinition(tasks, schedule)] :
              tasks \in lists, schedule \in schedules}
    /\ workflow = << >>
    /\ wf_known = FALSE
    /\ wf_pc = "idle"
    /\ wf_i = 1
    /\ executed_tasks = {}
    /\ results = << >>
    /\ wf_ran = {}
    /\ wf_ok = {}
    /\ wf_ret = None

WfInit == WfInitWith(Workflows, {<< >>})

\* create_workflow_from_text for a text parse_natural_language turns into
\* tasks, called in the second that names the workflow of the model: the
\* new WorkflowDefinition, whose schedule is None, replaces the entry. An
\* execute_workflow call in progress keeps the object it looked up.
CreateWorkflowFromText(tasks) ==
    /\ Len(tasks) > 0
    /\ workflows' = [id \in DOMAIN workflows \cup {WfId} |->
                        IF id = WfId THEN WorkflowDefinition(tasks, << >>)
                        ELSE workflows[id]]
    /\ UNCHANGED <<workflow, wf_known, wf_pc, wf_i, executed_tasks, results,
                   wf_ran, wf_ok, wf_ret>>

\* execute_workflow up to the for loop: the lookup of workflow_id
WfCall ==
    /\ wf_pc = "idle"
    /\ wf_known' = (WfId \in DOMAIN workflows)
    /\ IF WfId \in DOMAIN workflows
       THEN /\ wf_pc' = "loop"
            /\ workflow' = workflows[WfId].tasks
            /\ wf_ret' = wf_ret
       ELSE /\ wf_pc' = "done"
            /\ workflow' = workflow
            /\ wf_ret' = [success |-> FALSE, error |-> "Workflow not found"]
    /\ UNCHANGED <<workflows, wf_i, executed_tasks, results, wf_ran, wf_ok>>

\* one iteration of the for loop whose dependency check fails (continue)
WfSkipTask ==
    /\ wf_pc = "loop"
    /\ wf_i <= Len(workflow)
    /\ LET task == workflow[wf_i]
       IN  /\ MissingDeps(task, executed_tasks) # {}
           /\ results' = [t \in DOMAIN results \cup {task.id} |->
                            IF t = task.id THEN "missing_deps" ELSE results[t]]
    /\ wf_i' = wf_i + 1
    /\ UNCHANGED <<workflows, workflow, wf_known, wf_pc, executed_tasks, wf_ran, wf_ok, wf_ret>>

\* the iteration of the for loop whose dependency check passes, up to the
\* await of execute_task (line 546): the task has been called, nothing is
\* recorded yet, and other callbacks run while the call is suspended
WfRunTask ==
    /\ wf_pc = "loop"
    /\ wf_i <= Len(workflow)
    /\ MissingDeps(workflow[wf_i], executed_tasks) = {}
    /\ wf_pc' = "await"
    /\ wf_ran' = wf_ran \cup {wf_i}
    /\ UNCHANGED <<workflows, workflow, wf_known, wf_i, executed_tasks, results, wf_ok, wf_ret>>

\* execute_task returns: the rest of the iteration (lines 547-552).
\* execute_task returns a dict on every path (lines 370-397), so the except
\* branch of execute_workflow (lines 564-566) is not taken from here.
WfTaskReturn ==
    /\ wf_pc = "await"
    /\ LET task == workflow[wf_i]
       IN  \E success \in ExecuteTaskOutcomes :
                /\ results' = [t \in DOMAIN results \cup {task.id} |->
                                 IF t = task.id
                                 THEN (IF success THEN "ok" ELSE "failed")
                                 ELSE results[t]]
                /\ executed_tasks' = ExecutedAfter(executed_tasks, task.id, success)
                /\ wf_ok' = IF success THEN wf_ok \cup {wf_i} ELSE wf_ok
    /\ wf_pc' = "loop"
    /\ wf_i' = wf_i + 1
    /\ UNCHANGED <<workflows, workflow, wf_known, wf_ran, wf_ret>>

\* after the loop: the summary dict
WfReturn ==
    /\ wf_pc = "loop"
    /\ wf_i > Len(workflow)
    /\ wf_pc' = "done"
    /\ wf_ret' = [success |-> SuccessCount(results) = Len(workflow),
                  total_tasks |-> Len(workflow),
                  successful_tasks |-> SuccessCount(results)]
    /\ UNCHANGED <<workflows, workflow, wf_known, wf_i, executed_tasks, results, wf_ran, wf_ok>>

WfFrame == UNCHANGED <<schedVars, procVars, cronVars, bgVars>>

WfNext ==
    \/ \E tasks \in ParsedTexts : CreateWorkflowFromText(tasks) /\ WfFrame
    \/ WfCall /\ WfFrame
    \/ WfSkipTask /\ WfFrame
    \/ WfRunTask /\ WfFrame
    \/ WfTaskReturn /\ WfFrame
    \/ WfReturn /\ WfFrame

(***************************************************************************)
(*                 JobScheduler (basic loop, no APScheduler)                *)
(***************************************************************************)

\* Executions one behaviour creates (uuid4 values handed out).
MaxExecs == 2
\* Clock horizon, in loop periods.
MaxTicks == 1
\* Calls of start() one behaviour makes (each creates a loop task).
MaxLoops == 1
\* Administrative calls one behaviour makes (register, add, remove, pause, resume).
MaxCalls == 3

\* await asyncio.sleep(60)
TickSleep == 60
\* Keep only last 100 executions per job
HistoryLimit == 100

\* The job ids the callers use.
JobIds == {"j1"}

\* The handlers register_function was called for when the scheduler was set
\* up: a plain function and a coroutine function. "ghost_fn", which the model
\* also passes to add_job, is a name nobody has registered then.
RegisteredFns == {"sync_fn", "async_fn"}

\* The names register_function is called with later, each for a plain function.
LateFns == {"ghost_fn"}

\* The function schedule_workflow registers for a workflow,
\* execute_workflow_<workflow_id>: lambda: self.execute_workflow(workflow_id)
WorkflowFn == "execute_workflow_fn"

\* asyncio.iscoroutinefunction(func): a lambda that returns a coroutine is
\* not a coroutine function
IsCoroutineFunction(fn) == fn = "async_fn"

\* What a handler does when it is called: it raises ("raise") or returns a
\* value: None ("ok"), a tuple of numbers ("tuple") or a set ("set").
HandlerOutcomes == {"ok", "raise"}
ReturnsAndRaises == {"ok", "tuple", "set", "raise"}

\* result = func(*args, **kwargs) for a function that is not a coroutine
\* function: the call returns or raises as the handler does. Calling the
\* lambda of schedule_workflow returns the coroutine object of
\* execute_workflow, which nothing awaits: no line of execute_workflow runs.
HandlerOutcome(fn, outcome) == IF fn = WorkflowFn THEN "coroutine" ELSE outcome



\* max_instances: int = 1
DefaultMaxInstances == 1

\* JobConfig.misfire_grace_time: int = 300  (seconds)
DefaultMisfireGrace == 300

\* ---- dict helpers ----
Put(d, k, v) == [x \in DOMAIN d \cup {k} |-> IF x = k THEN v ELSE d[x]]
Del(d, k) == [x \in DOMAIN d \ {k} |-> d[x]]
\* dict.get(key, 0)
Get(d, k) == IF k \in DOMAIN d THEN d[k] ELSE 0
EmptyDict == << >>

\* ---- cron expressions: the list cron_expression.split() ----
Star == [star |-> TRUE, val |-> 0]
Num(n) == [star |-> FALSE, val |-> n]
CronDaily9 == <<Num(0), Num(9), Star, Star, Star>>        \* "0 9 * * *"
CronBadMinute == <<Num(99), Num(9), Star, Star, Star>>    \* "99 9 * * *"
CronFourFields == <<Num(0), Num(9), Star, Star>>          \* "0 9 * *"

\* The calls of add_cron_job the model makes.
CronRequests == { [fn |-> "sync_fn", parts |-> CronDaily9],
                  [fn |-> "async_fn", parts |-> CronBadMinute],
                  [fn |-> "sync_fn", parts |-> CronFourFields] }

\* The calls of add_interval_job the model makes (0: the argument is left
\* None): every minute, every -60 seconds, and no component at all.
IntervalRequests ==
    { [fn |-> "async_fn", seconds |-> 0, minutes |-> 1, m |-> DefaultMaxInstances],
      [fn |-> "sync_fn", seconds |-> 0 - 60, minutes |-> 0, m |-> DefaultMaxInstances + 1],
      [fn |-> "sync_fn", seconds |-> 0, minutes |-> 0, m |-> DefaultMaxInstances] }

\* The handler names of the add_job (immediate) and add_date_job calls.
ImmediateRequests == {"async_fn", "ghost_fn"}
DateRequests == {"sync_fn"}

\* trigger_config of add_interval_job: only the truthy arguments are stored
IntervalConfig(seconds, minutes) ==
    [k \in (IF seconds # 0 THEN {"seconds"} ELSE {}) \cup
           (IF minutes # 0 THEN {"minutes"} ELSE {}) |->
        IF k = "seconds" THEN seconds ELSE minutes]

\* trigger_config of add_cron_job
CronConfig(parts) ==
    [minute |-> parts[1], hour |-> parts[2], day |-> parts[3],
     month |-> parts[4], day_of_week |-> parts[5]]

\* The name the callers give a job.
JobName == "a job"

\* JobConfig(...) as add_job builds it: args=args or [], kwargs=kwargs_ or {}
\* and the dataclass defaults. args is None, "list" (a list of numbers),
\* "tuple" (a tuple of numbers) or "set" (a list that holds a set).
JobConfig(j, fn, type, config, args, m) ==
    [id |-> j, name |-> JobName, function |-> fn, trigger_type |-> type,
     trigger_config |-> config,
     args |-> IF args = None THEN "list" ELSE args, kwargs |-> EmptyDict,
     max_instances |-> m, misfire_grace_time |-> DefaultMisfireGrace,
     enabled |-> TRUE, description |-> "", tags |-> None]

\* _calculate_interval_seconds
CalculateIntervalSeconds(config) ==
    Get(config, "seconds") + Get(config, "minutes") * 60
      + Get(config, "hours") * 3600 + Get(config, "days") * 86400

\* _get_last_execution: whether it returns a record, and the record
HasLastExecution(ex, j) == j \in DOMAIN ex /\ Len(ex[j]) > 0
GetLastExecution(ex, j) == ex[j][Len(ex[j])]

\* mutant: the registration check is missing
FunctionRegisteredAny(fn, fns) == TRUE

\* function in self.job_functions
FunctionRegistered(fn, fns) == fn \in fns

\* the try/except of _execute_job around the handler call: execution.result
\* is whatever the handler returned
HandlerResult(rec, outcome) ==
    IF outcome = "raise"
    THEN [rec EXCEPT !.status = "failed", !.error = "handler error"]
    ELSE [rec EXCEPT !.status = "completed",
                     !.result = IF outcome = "ok" THEN None ELSE outcome]

\* the in-place update of the JobExecution object the call created, seen
\* through the list self.executions[job_id] when that list holds the object
MarkFinished(ex, j, eid, outcome) ==
    IF j \notin DOMAIN ex THEN ex
    ELSE [ex EXCEPT ![j] =
            [i \in 1..Len(ex[j]) |->
               IF ex[j][i].eid = eid THEN HandlerResult(ex[j][i], outcome)
               ELSE ex[j][i]]]

\* self.executions[job_id] = self.executions[job_id][-100:]
TrimHistory(ex, j) ==
    IF Len(ex[j]) > HistoryLimit
    THEN [ex EXCEPT ![j] = SubSeq(ex[j], Len(ex[j]) - HistoryLimit + 1, Len(ex[j]))]
    ELSE ex

\* An Enum member is written to jobs.json as its .value, a JSON string, and
\* read back with TriggerType(value) / JobStatus(value).
TriggerTypes == {"cron", "interval", "date", "immediate"}
JobStatuses == {"pending", "running", "completed", "failed", "cancelled", "paused"}

EnumValue(member) == [json_string |-> member]

EnumMember(value, members) ==
    CHOOSE m \in members : EnumValue(m) = value

\* json.dump of a value that is None, a string, a list or a tuple: None is
\* written as null, a list and a tuple both as an array, a string as itself
JsonDump(v) ==
    CASE v = None -> "null"
      [] v \in {"list", "tuple"} -> "array"
      [] OTHER -> v

\* json.load of what JsonDump wrote: an array is read as a list
JsonLoad(text) ==
    CASE text = "null" -> None
      [] text = "array" -> "list"
      [] OTHER -> text

\* json.dump of a dict key: an int key is written as the string of its
\* digits (the key 5, "int 5" here, becomes "5"); a str key is kept
JsonKey(k) == IF k = "int 5" THEN "5" ELSE k

\* json.dump of trigger_config: the keys become strings; the values of the
\* model (numbers, strings, cron fields) are written and read back unchanged
ConfigToJson(config) ==
    [k \in {JsonKey(x) : x \in DOMAIN config} |->
        config[CHOOSE x \in DOMAIN config : JsonKey(x) = k]]

\* {**asdict(job), 'trigger_type': job.trigger_type.value} as json.dump
\* writes it
JobToJson(job) ==
    [job EXCEPT !.trigger_type = EnumValue(@), !.trigger_config = ConfigToJson(@),
                !.args = JsonDump(@), !.tags = JsonDump(@)]

\* JobConfig(**job_dict) after job_dict['trigger_type'] = TriggerType(...)
JobFromJson(d) ==
    [d EXCEPT !.trigger_type = EnumMember(@, TriggerTypes),
              !.args = JsonLoad(@), !.tags = JsonLoad(@)]

\* {**asdict(ex), 'status': ex.status.value} as json.dump writes it
ExecToJson(rec) ==
    [rec EXCEPT !.status = EnumValue(@), !.result = JsonDump(@), !.error = JsonDump(@)]

\* JobExecution(**{**ex, 'status': JobStatus(ex['status'])})
ExecFromJson(d) ==
    [d EXCEPT !.status = EnumMember(@, JobStatuses),
              !.result = JsonLoad(@), !.error = JsonLoad(@)]

\* asdict(ex) deep-copies execution.result: a coroutine object cannot be
\* copied, and the TypeError is raised before jobs.json is opened
Copyable(ex) ==
    \A j \in DOMAIN ex : \A i \in 1..Len(ex[j]) : ex[j][i].result # "coroutine"

\* json.dump can encode every args and every result: a set raises TypeError
Encodable(js, ex) ==
    /\ \A j \in DOMAIN js : js[j].args # "set"
    /\ \A j \in DOMAIN ex : \A i \in 1..Len(ex[j]) : ex[j][i].result # "set"

\* what _save_jobs has when building jobs_data raised
SaveFailed == [exists |-> FALSE, raised |-> TRUE]

\* jobs.json after open(jobs_file, 'w') has emptied it and json.dump has
\* raised part-way: the text is not a JSON document
Truncated == [exists |-> TRUE, jobs |-> EmptyDict, executions |-> EmptyDict,
              document |-> FALSE]

\* _save_jobs: what is in jobs.json after open and json.dump
SaveJobs(js, ex) ==
    IF ~Copyable(ex) THEN SaveFailed
    ELSE IF ~Encodable(js, ex) THEN Truncated
    ELSE [exists |-> TRUE,
          jobs |-> [j \in DOMAIN js |-> JobToJson(js[j])],
          executions |-> [j \in DOMAIN ex |->
             [i \in 1..Len(ex[j]) |-> ExecToJson(ex[j][i])]]]

\* jobs.json does not exist
NoFile == [exists |-> FALSE, jobs |-> EmptyDict, executions |-> EmptyDict]

\* jobs.json does not exist and cannot be created: open(jobs_file, 'w') raises
NoDir == [exists |-> FALSE, jobs |-> EmptyDict, executions |-> EmptyDict,
          writable |-> FALSE]

\* the try/except of _save_jobs: an error of asdict() or of open() is logged
\* and the file is left as it was
WriteJobs(file, data) == IF file = NoDir \/ data = SaveFailed THEN file ELSE data

\* _load_jobs reads the file: it exists and json.load returns
Parses(file) == file.exists /\ file # Truncated

\* _load_jobs: the file's jobs and executions replace the entries of the
\* same id; the JSONDecodeError of a file that is no document is logged and
\* nothing is loaded
LoadedJobs(js, file) ==
    IF ~Parses(file) THEN js
    ELSE [j \in DOMAIN js \cup DOMAIN file.jobs |->
            IF j \in DOMAIN file.jobs THEN JobFromJson(file.jobs[j]) ELSE js[j]]

LoadedExecutions(ex, file) ==
    IF ~Parses(file) THEN ex
    ELSE [j \in DOMAIN ex \cup DOMAIN file.executions |->
            IF j \in DOMAIN file.executions
            THEN [i \in 1..Len(file.executions[j]) |-> ExecFromJson(file.executions[j][i])]
            ELSE ex[j]]

\* an _execute_job coroutine suspended in an async handler: its local
\* execution is the JobExecution it appended; held tells whether the list
\* self.executions[job_id] can still hold that object
Suspended(eid, j) == [eid |-> eid, job |-> j, held |-> TRUE]

\* _load_jobs line 517: the list of every job id of the file is replaced by
\* a list of new JobExecution objects, so the objects the suspended
\* coroutines hold for those jobs are in no list any more
Detached(suspended, file) ==
    IF ~Parses(file) THEN suspended
    ELSE {IF e.job \in DOMAIN file.executions THEN [e EXCEPT !.held = FALSE] ELSE e :
             e \in suspended}

Call(op, job, fn, outcome, eid, ret) ==
    [op |-> op, job |-> job, fn |-> fn, outcome |-> outcome, eid |-> eid, ret |-> ret]

SchedInitWith(file) ==
    /\ running = FALSE
    /\ loops = << >>
    /\ jobs = EmptyDict
    /\ executions = EmptyDict
    /\ job_functions = RegisteredFns
    /\ launched = [j \in JobIds |-> 0]
    /\ inflight = {}
    /\ saved = file
    /\ nextEid = 1
    /\ now = 0
    /\ calls = 0
    /\ lastCall = Call("init", None, None, None, 0, None)

\* a JobScheduler after __init__ on an empty data_dir
SchedInit == SchedInitWith(NoFile)

\* start(): create the loop task, set running, _load_jobs; nothing in start()
\* looks at self.running, the number of live loop tasks is bounded by the
\* specification only
StartCall(max_loops) ==
    /\ Len(loops) < max_loops
    /\ loops' = Append(loops, now)
    /\ running' = TRUE
    /\ jobs' = LoadedJobs(jobs, saved)
    /\ executions' = LoadedExecutions(executions, saved)
    /\ inflight' = Detached(inflight, saved)
    /\ lastCall' = Call("start", None, None, None, 0, None)
    /\ UNCHANGED <<job_functions, launched, saved, nextEid, now>>
    /\ UNCHANGED calls

Start == StartCall(MaxLoops)

\* stop(): clear running, _save_jobs; nothing in stop() looks at self.running
Stop ==
    /\ running' = FALSE
    /\ saved' = WriteJobs(saved, SaveJobs(jobs, executions))
    /\ lastCall' = Call("stop", None, None, None, 0, None)
    /\ UNCHANGED <<loops, jobs, executions, job_functions, launched, inflight,
                   nextEid, now>>
    /\ UNCHANGED calls

\* add_job: the body shared by the add_*_job entry points
AddJobBody(op, j, fn, type, config, args, m) ==
    /\ calls < MaxCalls
    /\ calls' = calls + 1
    /\ IF FunctionRegistered(fn, job_functions)
       THEN /\ jobs' = Put(jobs, j, JobConfig(j, fn, type, config, args, m))
            /\ executions' = Put(executions, j, << >>)
            /\ saved' = WriteJobs(saved, SaveJobs(jobs', executions'))
            /\ lastCall' = Call(op, j, fn, None, 0, "true")
       ELSE /\ lastCall' = Call(op, j, fn, None, 0, "false")
            /\ UNCHANGED <<jobs, executions, saved>>
    /\ UNCHANGED <<running, loops, job_functions, launched, inflight, nextEid, now>>

\* add_job called directly: immediate trigger
AddJob(j, fn, config, args, m) ==
    AddJobBody("add_job", j, fn, "immediate", config, args, m)

\* add_cron_job
AddCronJob(j, fn, parts, m) ==
    IF Len(parts) # 5
    THEN /\ calls < MaxCalls
         /\ calls' = calls + 1
         /\ lastCall' = Call("add_cron_job", j, fn, None, 0, "raise")
         /\ UNCHANGED <<running, loops, jobs, executions, job_functions,
                        launched, inflight, saved, nextEid, now>>
    ELSE AddJobBody("add_cron_job", j, fn, "cron", CronConfig(parts), None, m)

\* add_interval_job
AddIntervalJob(j, fn, seconds, minutes, m) ==
    IF DOMAIN IntervalConfig(seconds, minutes) = {}
    THEN /\ calls < MaxCalls
         /\ calls' = calls + 1
         /\ lastCall' = Call("add_interval_job", j, fn, None, 0, "raise")
         /\ UNCHANGED <<running, loops, jobs, executions, job_functions,
                        launched, inflight, saved, nextEid, now>>
    ELSE AddJobBody("add_interval_job", j, fn, "interval",
                    IntervalConfig(seconds, minutes), None, m)

\* add_date_job
AddDateJob(j, fn, run_date, m) ==
    AddJobBody("add_date_job", j, fn, "date", [run_date |-> run_date], None, m)

\* remove_job
RemoveJob(j) ==
    /\ calls < MaxCalls
    /\ calls' = calls + 1
    /\ jobs' = Del(jobs, j)
    /\ executions' = Del(executions, j)
    /\ saved' = WriteJobs(saved, SaveJobs(jobs', executions'))
    /\ lastCall' = Call("remove_job", j, None, None, 0, "true")
    /\ UNCHANGED <<running, loops, job_functions, launched, inflight, nextEid, now>>

\* job_config.enabled as the call found it
WasEnabled(j) ==
    IF j \notin DOMAIN jobs THEN None
    ELSE IF jobs[j].enabled THEN "was_enabled" ELSE "was_paused"

\* pause_job / resume_job
SetEnabled(op, j, flag) ==
    /\ calls < MaxCalls
    /\ calls' = calls + 1
    /\ jobs' = IF j \in DOMAIN jobs THEN [jobs EXCEPT ![j].enabled = flag] ELSE jobs
    /\ lastCall' = Call(op, j, None, WasEnabled(j), 0, "true")
    /\ UNCHANGED <<running, loops, executions, job_functions, launched, inflight,
                   saved, nextEid, now>>

PauseJob(j) == SetEnabled("pause_job", j, FALSE)

ResumeJob(j) == SetEnabled("resume_job", j, TRUE)

\* should_run of one loop iteration for an enabled job
ShouldRun(config, j) ==
    IF config.trigger_type = "interval"
    THEN IF HasLastExecution(executions, j)
         THEN now - GetLastExecution(executions, j).started_at
                >= CalculateIntervalSeconds(config.trigger_config)
         ELSE TRUE
    ELSE config.trigger_type = "immediate"

\* job_config.trigger_type = TriggerType.DATE for the immediate jobs the loop saw
AfterTick(config) ==
    IF config.enabled /\ config.trigger_type = "immediate"
    THEN [config EXCEPT !.trigger_type = "date"]
    ELSE config

RECURSIVE SumOver(_, _)
SumOver(f, S) ==
    IF S = {} THEN 0
    ELSE LET x == CHOOSE y \in S : TRUE IN f[x] + SumOver(f, S \ {x})

RemoveAt(s, i) == [k \in 1..(Len(s) - 1) |-> IF k < i THEN s[k] ELSE s[k + 1]]

\* _execute_job from its first line to the handler's first suspension (an
\* async handler) or to its last line (a sync handler, which ends as
\* outcome says)
ExecuteJob(op, j, outcome) ==
    IF j \notin DOMAIN jobs \/ ~jobs[j].enabled
    THEN /\ lastCall' = Call(op, j, None, None, 0, "skipped")
         /\ UNCHANGED <<executions, inflight, nextEid>>
    ELSE /\ nextEid <= MaxExecs
         /\ nextEid' = nextEid + 1
         /\ LET rec == [eid |-> nextEid, status |-> "running",
                        started_at |-> now, error |-> None,
                        result |-> None]
                appended == [executions EXCEPT ![j] = Append(@, rec)]
                fn == jobs[j].function
            IN  IF fn \notin job_functions
                THEN \* self.job_functions[...] raises KeyError inside the try
                     /\ executions' = TrimHistory(
                            [appended EXCEPT ![j][Len(appended[j])] =
                                [rec EXCEPT !.status = "failed", !.error = "key error"]], j)
                     /\ lastCall' = Call(op, j, None, None, nextEid, "true")
                     /\ UNCHANGED inflight
                ELSE IF IsCoroutineFunction(fn)
                THEN /\ executions' = appended
                     /\ inflight' = inflight \cup {Suspended(nextEid, j)}
                     /\ lastCall' = Call(op, j, None, None, nextEid, "suspended")
                ELSE /\ executions' =
                           TrimHistory(MarkFinished(appended, j, nextEid,
                                                    HandlerOutcome(fn, outcome)), j)
                     /\ lastCall' = Call(op, j, None, HandlerOutcome(fn, outcome),
                                         nextEid, "true")
                     /\ UNCHANGED inflight

\* run_job_now
RunJobNow(j, outcome) ==
    /\ IF j \notin DOMAIN jobs
       THEN /\ lastCall' = Call("run_job_now", j, None, None, 0, "false")
            /\ UNCHANGED <<executions, inflight, nextEid>>
       ELSE ExecuteJob("run_job_now", j, outcome)
    /\ UNCHANGED <<running, loops, jobs, job_functions, launched, saved, now>>
    /\ UNCHANGED calls

\* register_function
RegisterFunction(name) ==
    /\ calls < MaxCalls
    /\ calls' = calls + 1
    /\ job_functions' = job_functions \cup {name}
    /\ lastCall' = Call("register_function", None, name, None, 0, None)
    /\ UNCHANGED <<running, loops, jobs, executions, launched, inflight, saved,
                   nextEid, now>>

\* TaskOrchestrator.schedule_workflow for the workflow of the model, whose
\* job id workflow_<workflow_id> is j. WorkflowDefinition.schedule is << >>
\* for None; the tasks of the model have no schedule of their own.
ScheduleWorkflow(j) ==
    /\ calls < MaxCalls
    /\ calls' = calls + 1
    /\ IF WfId \notin DOMAIN workflows
       THEN /\ lastCall' = Call("schedule_workflow", j, WorkflowFn, None, 0, "false")
            /\ UNCHANGED <<job_functions, jobs, executions, saved>>
       ELSE /\ job_functions' = job_functions \cup {WorkflowFn}
            /\ lastCall' = Call("schedule_workflow", j, WorkflowFn, None, 0, "true")
            /\ IF Len(workflows[WfId].schedule) = 0
               THEN UNCHANGED <<jobs, executions, saved>>
               ELSE /\ jobs' = Put(jobs, j, JobConfig(j, WorkflowFn, "cron",
                                                     CronConfig(workflows[WfId].schedule),
                                                     None, DefaultMaxInstances))
                    /\ executions' = Put(executions, j, << >>)
                    /\ saved' = WriteJobs(saved, SaveJobs(jobs', executions'))
    /\ UNCHANGED <<running, loops, launched, inflight, nextEid, now>>

\* a task the loop created with create_task(self._execute_job(job_id)) starts
ExecStart(j, outcome) ==
    /\ launched[j] > 0
    /\ launched' = [launched EXCEPT ![j] = @ - 1]
    /\ ExecuteJob("execute_job", j, outcome)
    /\ UNCHANGED <<running, loops, jobs, job_functions, saved, now>>
    /\ UNCHANGED calls

\* an async handler returns or raises: the rest of _execute_job. The status
\* is written to the object the coroutine holds (lines 377-388), the trim
\* works on the list self.executions[job_id] (lines 393-394).
ExecFinish(e, outcome) ==
    /\ e \in inflight
    /\ inflight' = inflight \ {e}
    /\ IF e.job \in DOMAIN executions
       THEN /\ executions' =
                  TrimHistory(IF e.held
                              THEN MarkFinished(executions, e.job, e.eid, outcome)
                              ELSE executions, e.job)
            /\ lastCall' = Call("handler_done", e.job, None, outcome, e.eid, "true")
       ELSE \* len(self.executions[job_id]) raises KeyError out of the task
            /\ executions' = executions
            /\ lastCall' = Call("handler_done", e.job, None, outcome, e.eid, "raise")
    /\ UNCHANGED <<running, loops, jobs, job_functions, launched, saved, nextEid, now>>
    /\ UNCHANGED calls

\* one wake-up of a _basic_scheduler_loop task: the while test, the for loop
\* over self.jobs, then asyncio.sleep(60)
Tick(i) ==
    /\ i \in 1..Len(loops)
    /\ loops[i] <= now
    /\ IF ~running
       THEN /\ loops' = RemoveAt(loops, i)
            /\ lastCall' = Call("loop_exit", None, None, None, 0, None)
            /\ UNCHANGED <<jobs, launched>>
       ELSE LET due == {j \in DOMAIN jobs : jobs[j].enabled /\ ShouldRun(jobs[j], j)}
            IN  /\ (nextEid - 1) + SumOver(launched, JobIds) + Cardinality(due) <= MaxExecs
                /\ launched' = [j \in JobIds |-> launched[j] + (IF j \in due THEN 1 ELSE 0)]
                /\ jobs' = [j \in DOMAIN jobs |-> AfterTick(jobs[j])]
                /\ loops' = [loops EXCEPT ![i] = now + TickSleep]
                /\ lastCall' = Call("tick", None, None, None, 0,
                                    IF due = {} THEN "idle" ELSE "launched")
    /\ UNCHANGED <<running, executions, job_functions, inflight, saved, nextEid, now>>
    /\ UNCHANGED calls

\* time passes, up to the horizon of the specification
AdvanceTo(horizon) ==
    /\ now < horizon
    /\ now' = now + TickSleep
    /\ lastCall' = Call("advance", None, None, None, 0, None)
    /\ UNCHANGED <<running, loops, jobs, executions, job_functions, launched,
                   inflight, saved, nextEid>>
    /\ UNCHANGED calls

Advance == AdvanceTo(MaxTicks * TickSleep)

(***************************************************************************)
(*                              ProcessManager                             *)
(***************************************************************************)

\* Native processes the model lets the manager spawn.
MaxSpawns == 3

\* for _ in range(10) in stop_process
GracePolls == 10

ProcIds == {"p"}

\* class ProcessStatus
ProcessStatuses == {"stopped", "starting", "running", "stopping", "crashed", "failed"}

\* process_info.pid = None
NoPid == 0

\* The two installations: psutil and aiohttp importable, or neither
\* (processes.py then runs with psutil = None).
Builds == {[psutil |-> TRUE, aiohttp |-> TRUE],
           [psutil |-> FALSE, aiohttp |-> FALSE]}

\* memory_limit / cpu_limit left at None: no ceiling (the sampler tests the
\* limit for truth, which None and 0 both fail)
NoLimit == 0

ProcessConfig(auto_restart, max_restarts, enabled, health_check_url) ==
    [auto_restart |-> auto_restart, max_restarts |-> max_restarts,
     enabled |-> enabled, health_check_url |-> health_check_url,
     memory_limit |-> NoLimit, cpu_limit |-> NoLimit]

\* a configuration with memory_limit (MB) and cpu_limit (percent) set
Limited(config, memory_limit, cpu_limit) ==
    [config EXCEPT !.memory_limit = memory_limit, !.cpu_limit = cpu_limit]

\* Configurations add_process is called with.
ProcConfigs == {ProcessConfig(TRUE, 1, TRUE, FALSE),
                ProcessConfig(TRUE, 0, TRUE, FALSE),
                ProcessConfig(FALSE, 1, TRUE, FALSE),
                ProcessConfig(TRUE, 1, FALSE, FALSE)}

ProcessInfo(config) ==
    [config |-> config, status |-> "stopped", pid |-> NoPid,
     restart_count |-> 0, health_status |-> None]

\* op: the call that took the step ("step" for a task or process step that is
\* no call); pre: the status the call found; ret: its result
PCall(op, id, pre, ret) == [op |-> op, id |-> id, pre |-> pre, ret |-> ret]

\* no processes.json in data_dir
NoProcFile == [exists |-> FALSE, data |-> EmptyDict]

\* processes.json does not exist and cannot be created
NoProcDir == [exists |-> FALSE, data |-> EmptyDict, writable |-> FALSE]

\* the try/except of _save_processes: an error of open() is logged and the
\* file is left as it was
WriteProcesses(file, data) == IF file = NoProcDir THEN file ELSE data

\* a stop_process call suspended in asyncio.sleep(1): polls is the number of
\* pid_exists checks it has made, by its caller ("call" for a call of its
\* own, "stop" for ProcessManager.stop, "remove" for remove_process), ref the
\* ProcessInfo it holds
StopCall(id, polls, by, ref) == [id |-> id, polls |-> polls, by |-> by, ref |-> ref]

\* states of a _monitor_process task: created (not yet run), waiting (in
\* process.wait()), delay (in asyncio.sleep(restart_delay)), starting (in
\* the spawn of its start_process call), done, cancelled
MonLive == {"created", "waiting", "delay", "starting"}
\* states of a _health_check_process task: created, probing (the request is
\* sent), active (in asyncio.sleep), done, cancelled; none when no task exists
HcLive == {"created", "active", "probing"}

\* the states in which a task uses the ProcessInfo it has looked up
MonHolds == {"waiting", "starting"}
HcHolds == {"active", "probing"}

\* a ProcessManager after __init__, with data_dir holding file
FreshManager(file) ==
    /\ build \in Builds
    /\ pm_running = FALSE
    /\ processes = EmptyDict
    /\ stale = << >>
    /\ monitors = EmptyDict
    /\ health_checkers = EmptyDict
    /\ alive = {}
    /\ termed = {}
    /\ owner = << >>
    /\ mon = << >>
    /\ mon_ref = << >>
    /\ hc = << >>
    /\ hc_ref = << >>
    /\ starts = [id \in ProcIds |-> 0]
    /\ stop_calls = << >>
    /\ auto_restarts = [id \in ProcIds |-> 0]
    /\ stop_ok = [id \in ProcIds |-> FALSE]
    /\ proc_file = file
    /\ pLast = PCall("init", None, None, None)
    /\ pm_calls = 0

ProcInit == FreshManager(NoProcFile)

\* _save_processes: config, status.value and restart_count of every process
SaveProcesses(procs) ==
    [exists |-> TRUE,
     data |-> [id \in DOMAIN procs |->
                 [config |-> procs[id].config,
                  status |-> EnumValue(procs[id].status),
                  restart_count |-> procs[id].restart_count]]]

\* a load that trusts the persisted status
LoadedInfoSavedStatus(d) ==
    [config |-> d.config, status |-> EnumMember(d.status, ProcessStatuses), pid |-> NoPid,
     restart_count |-> d.restart_count, health_status |-> None]

\* the ProcessInfo _load_processes builds from one entry of the file
LoadedInfo(d) ==
    [config |-> d.config, status |-> "stopped", pid |-> NoPid,
     restart_count |-> d.restart_count, health_status |-> None]

\* _load_processes: self.processes after the file has been read
LoadProcesses(file, procs) ==
    IF ~file.exists
    THEN procs
    ELSE [id \in DOMAIN procs \cup DOMAIN file.data |->
            IF id \in DOMAIN file.data THEN LoadedInfo(file.data[id]) ELSE procs[id]]

\* The objects of the manager that its calls change together: the registry
\* self.processes, the ProcessInfo objects the registry has let go of, the
\* two task registries with their tasks, the suspended calls, and the file.
Manager ==
    [processes |-> processes, stale |-> stale, monitors |-> monitors,
     health_checkers |-> health_checkers, mon |-> mon, mon_ref |-> mon_ref,
     hc |-> hc, hc_ref |-> hc_ref, starts |-> starts, stop_calls |-> stop_calls,
     proc_file |-> proc_file]

\* the step leaves the manager as m
Becomes(m) ==
    /\ processes' = m.processes
    /\ stale' = m.stale
    /\ monitors' = m.monitors
    /\ health_checkers' = m.health_checkers
    /\ mon' = m.mon
    /\ mon_ref' = m.mon_ref
    /\ hc' = m.hc
    /\ hc_ref' = m.hc_ref
    /\ starts' = m.starts
    /\ stop_calls' = m.stop_calls
    /\ proc_file' = m.proc_file

\* The ProcessInfo a task or call holds (process_info in the code): ref 0
\* is the object self.processes holds under id, ref n > 0 is stale[n], an
\* object the registry held when the task looked it up and has replaced or
\* deleted since.
ObjIn(m, ref, id) == IF ref = 0 THEN m.processes[id] ELSE m.stale[ref].info

Obj(ref, id) == ObjIn(Manager, ref, id)

\* an assignment to the fields of the object a task or call holds
SetObj(m, ref, id, info) ==
    IF ref = 0
    THEN [m EXCEPT !.processes[id] = info]
    ELSE [m EXCEPT !.stale[ref].info = info]

\* some task or call holds the object the registry has under id
HeldIn(m, id) ==
    \/ m.starts[id] > 0
    \/ \E k \in 1..Len(m.mon) :
          owner[k] = id /\ m.mon[k] \in MonHolds /\ m.mon_ref[k] = 0
    \/ \E k \in 1..Len(m.hc) :
          owner[k] = id /\ m.hc[k] \in HcHolds /\ m.hc_ref[k] = 0
    \/ \E c \in 1..Len(m.stop_calls) :
          m.stop_calls[c].id = id /\ m.stop_calls[c].ref = 0

\* self.processes[id] is about to be assigned or deleted: the tasks and
\* calls that hold the object keep it
Dropped(m, id) ==
    IF id \notin DOMAIN m.processes \/ ~HeldIn(m, id)
    THEN m
    ELSE LET n == Len(m.stale) + 1
         IN  [m EXCEPT
                !.stale = Append(@, [id |-> id, info |-> m.processes[id],
                                     starts |-> m.starts[id]]),
                !.starts[id] = 0,
                !.mon_ref = [k \in 1..Len(m.mon_ref) |->
                               IF owner[k] = id /\ m.mon[k] \in MonHolds
                                  /\ m.mon_ref[k] = 0
                               THEN n ELSE m.mon_ref[k]],
                !.hc_ref = [k \in 1..Len(m.hc_ref) |->
                               IF owner[k] = id /\ m.hc[k] \in HcHolds
                                  /\ m.hc_ref[k] = 0
                               THEN n ELSE m.hc_ref[k]],
                !.stop_calls = [c \in 1..Len(m.stop_calls) |->
                               IF m.stop_calls[c].id = id /\ m.stop_calls[c].ref = 0
                               THEN [m.stop_calls[c] EXCEPT !.ref = n]
                               ELSE m.stop_calls[c]]]

RECURSIVE DroppedAll(_, _)
DroppedAll(m, ids) ==
    IF ids = {} THEN m
    ELSE LET id == CHOOSE x \in ids : TRUE
         IN  DroppedAll(Dropped(m, id), ids \ {id})

\* _save_processes
Saved(m) == [m EXCEPT !.proc_file = WriteProcesses(@, SaveProcesses(m.processes))]

\* ProcessManager.start: self.running = True, then _load_processes, which
\* assigns a new ProcessInfo to every id of the file. Nothing in start()
\* looks at self.running or at the tasks that exist.
PmStart ==
    /\ pm_running' = TRUE
    /\ Becomes(IF ~proc_file.exists
               THEN Manager
               ELSE [DroppedAll(Manager, DOMAIN proc_file.data \cap DOMAIN processes)
                       EXCEPT !.processes = LoadProcesses(proc_file, processes)])
    /\ pLast' = PCall("start", None, None, None)
    /\ UNCHANGED <<build, alive, termed, owner, auto_restarts, stop_ok>>

\* add_process: self.processes[config.id] is assigned a new ProcessInfo,
\* whether or not the id is managed already, then _save_processes
AddProcess(id, config) ==
    /\ Becomes(Saved([Dropped(Manager, id)
                        EXCEPT !.processes = Put(processes, id, ProcessInfo(config))]))
    /\ pLast' = PCall("add_process", id, None, "true")
    /\ UNCHANGED <<build, pm_running, alive, termed, owner, auto_restarts, stop_ok>>

\* start_process calls suspended in create_subprocess_shell
PendingSpawns ==
    SumOver(starts, ProcIds)
      + SumOver([n \in 1..Len(stale) |-> stale[n].starts], 1..Len(stale))
      + Cardinality({k \in 1..Len(mon) : mon[k] = "starting"})

\* a restart test that still passes when the budget is used up
MayRestartInclusive(info) ==
    info.config.auto_restart /\ info.restart_count <= info.config.max_restarts

\* the restart test of _monitor_process
MayRestart(info) ==
    info.config.auto_restart /\ info.restart_count < info.config.max_restarts

\* what start_process writes once the spawn has returned
Started(info, pid) ==
    [info EXCEPT !.pid = pid, !.status = "running", !.restart_count = 0]

\* start_process from the return of create_subprocess_shell on, for the call
\* that holds the object ref of id; m is the manager the caller leaves. The
\* two tasks are created and registered under id; they run later.
CompleteSpawn(m, ref, id) ==
    LET pid == Len(owner) + 1
        info == ObjIn(m, ref, id)
        url == info.config.health_check_url
    IN  /\ Becomes([SetObj(m, ref, id, Started(info, pid)) EXCEPT
                      !.mon = Append(@, "created"),
                      !.mon_ref = Append(@, 0),
                      !.monitors = Put(@, id, pid),
                      !.hc = Append(@, IF url THEN "created" ELSE "none"),
                      !.hc_ref = Append(@, 0),
                      !.health_checkers = IF url THEN Put(@, id, pid) ELSE @])
        /\ alive' = alive \cup {pid}
        /\ owner' = Append(owner, id)

\* a start_process that never finds the process running
AlreadyRunningNever(info) == FALSE

\* if process_info.status == ProcessStatus.RUNNING
AlreadyRunning(info) == info.status = "running"

\* start_process up to its first suspension or its return.
\* create_subprocess_shell forks the child before it suspends: a spawn that
\* cannot be made (outcome "raise", e.g. a working_dir that does not exist)
\* raises inside the call, which sets STARTING, then FAILED and returns False
\* without suspending; a spawn that is made (outcome "ok") suspends the call
\* in status STARTING until the transport is connected.
StartProcess(id, outcome) ==
    /\ stop_ok' = [stop_ok EXCEPT ![id] = FALSE]
    /\ IF id \notin DOMAIN processes
       THEN /\ pLast' = PCall("start_process", id, None, "false")
            /\ Becomes(Manager)
            /\ UNCHANGED auto_restarts
       ELSE LET info == processes[id]
            IN  IF ~info.config.enabled
                THEN /\ pLast' = PCall("start_process", id, info.status, "false")
                     /\ Becomes(Manager)
                     /\ UNCHANGED auto_restarts
                ELSE IF AlreadyRunning(info)
                THEN /\ pLast' = PCall("start_process", id, info.status, "true")
                     /\ Becomes(Manager)
                     /\ UNCHANGED auto_restarts
                ELSE IF outcome = "raise"
                THEN /\ Becomes([Manager EXCEPT !.processes[id].status = "failed"])
                     /\ auto_restarts' = [auto_restarts EXCEPT ![id] = 0]
                     /\ pLast' = PCall("start_process", id, info.status, "false")
                ELSE /\ Len(owner) + PendingSpawns < MaxSpawns
                     /\ Becomes([Manager EXCEPT !.processes[id].status = "starting",
                                                !.starts[id] = @ + 1])
                     /\ auto_restarts' = [auto_restarts EXCEPT ![id] = 0]
                     /\ pLast' = PCall("start_process", id, info.status, "pending")
    /\ UNCHANGED <<build, pm_running, alive, termed, owner>>

\* create_subprocess_shell returns to a manual start_process; the call
\* holds the object the registry has
StartSpawn(id) ==
    /\ starts[id] > 0
    /\ CompleteSpawn([Manager EXCEPT !.starts[id] = @ - 1], 0, id)
    /\ pLast' = PCall("start_spawn", id, "starting", "true")
    /\ UNCHANGED <<build, pm_running, termed, auto_restarts, stop_ok>>

\* the same for a call whose object the registry has let go of
StartSpawnDropped(n) ==
    /\ n \in 1..Len(stale)
    /\ stale[n].starts > 0
    /\ CompleteSpawn([Manager EXCEPT !.stale[n].starts = @ - 1], n, stale[n].id)
    /\ pLast' = PCall("start_spawn", stale[n].id, "starting", "true")
    /\ UNCHANGED <<build, pm_running, termed, auto_restarts, stop_ok>>

\* task.cancel() on the task a registry holds for id
CancelTask(tab, registry, id, live) ==
    IF id \in DOMAIN registry /\ tab[registry[id]] \in live
    THEN [tab EXCEPT ![registry[id]] = "cancelled"]
    ELSE tab

\* task.cancel() on every task a registry holds (the registry keeps them)
CancelAll(tab, registry, live) ==
    [k \in DOMAIN tab |->
        IF (\E id \in DOMAIN registry : registry[id] = k) /\ tab[k] \in live
        THEN "cancelled" ELSE tab[k]]

\* stop_process from process_info.status = STOPPED to return True, for the
\* call that holds the object ref: the tasks cancelled and deleted are the
\* ones registered under id
StopFinish(m, id, ref) ==
    [SetObj(m, ref, id, [ObjIn(m, ref, id) EXCEPT !.status = "stopped", !.pid = NoPid])
       EXCEPT !.mon = CancelTask(m.mon, m.monitors, id, MonLive),
              !.hc = CancelTask(m.hc, m.health_checkers, id, HcLive),
              !.monitors = Del(@, id),
              !.health_checkers = Del(@, id)]

\* ProcessManager.stop after its loop of stop_process calls: cancel what
\* the two registries hold, then _save_processes
StopReturn(m) ==
    Saved([m EXCEPT !.mon = CancelAll(m.mon, m.monitors, MonLive),
                    !.hc = CancelAll(m.hc, m.health_checkers, HcLive)])

\* remove_process after its stop_process call: del self.processes[id]
\* (a KeyError if another call has deleted it: return False), cancel and
\* delete the tasks registered under id, _save_processes
RemoveReturn(m, id) ==
    IF id \notin DOMAIN m.processes
    THEN m
    ELSE Saved([Dropped(m, id) EXCEPT
                  !.processes = Del(@, id),
                  !.hc = CancelTask(m.hc, m.health_checkers, id, HcLive),
                  !.mon = CancelTask(m.mon, m.monitors, id, MonLive),
                  !.health_checkers = Del(@, id),
                  !.monitors = Del(@, id)])

\* a stop_process call has returned and left the manager as m: what its
\* caller does next
StopProcessReturns(m, by, id) ==
    CASE by = "call" -> m
      [] by = "stop" -> StopReturn(m)
      [] by = "remove" -> RemoveReturn(m, id)

\* the call that has returned with it, and its result
ReturnedCall(m, by, id, pre, ret) ==
    CASE by = "call" -> PCall("stop_process", id, pre, ret)
      [] by = "stop" -> PCall("stop", None, None, "returned")
      [] by = "remove" -> PCall("remove_process", id, pre,
                                IF id \in DOMAIN m.processes THEN "true" ELSE "false")

\* stop_process up to its first asyncio.sleep(1), or to its return. Only the
\* id and the status are tested: other stop_process calls may be in progress.
StopProcessCall(id, by) ==
    /\ IF id \notin DOMAIN processes
       THEN /\ Becomes(StopProcessReturns(Manager, by, id))
            /\ pLast' = ReturnedCall(Manager, by, id, None, "false")
            /\ UNCHANGED <<alive, termed, stop_ok>>
       ELSE LET info == processes[id]
                stopping == SetObj(Manager, 0, id, [info EXCEPT !.status = "stopping"])
            IN  IF info.status # "running"
                THEN /\ Becomes(StopProcessReturns(Manager, by, id))
                     /\ pLast' = ReturnedCall(Manager, by, id, info.status, "true")
                     /\ stop_ok' = [stop_ok EXCEPT ![id] = TRUE]
                     /\ UNCHANGED <<alive, termed>>
                ELSE IF info.pid = NoPid \/ info.pid \notin alive
                THEN \* nothing to signal, or killpg raises ProcessLookupError
                     /\ Becomes(StopProcessReturns(StopFinish(Manager, id, 0), by, id))
                     /\ pLast' = ReturnedCall(Manager, by, id, "running", "true")
                     /\ stop_ok' = [stop_ok EXCEPT ![id] = TRUE]
                     /\ UNCHANGED <<alive, termed>>
                ELSE /\ termed' = termed \cup {info.pid}
                     /\ IF build.psutil
                        THEN \E gone \in BOOLEAN :
                             IF gone
                             THEN \* the process group has exited and been reaped
                                  \* when psutil.pid_exists is first called: break,
                                  \* and the call runs to its return without a sleep
                                  /\ alive' = alive \ {info.pid}
                                  /\ Becomes(StopProcessReturns(StopFinish(Manager, id, 0),
                                                                by, id))
                                  /\ pLast' = ReturnedCall(Manager, by, id, "running", "true")
                                  /\ stop_ok' = [stop_ok EXCEPT ![id] = TRUE]
                             ELSE /\ Becomes([stopping EXCEPT !.stop_calls =
                                                 Append(@, StopCall(id, 1, by, 0))])
                                  /\ pLast' = PCall(CASE by = "call" -> "stop_process"
                                                      [] by = "stop" -> "stop"
                                                      [] by = "remove" -> "remove_process",
                                                    id, "running", "pending")
                                  /\ UNCHANGED <<alive, stop_ok>>
                        ELSE \* psutil is None: AttributeError, return False
                             /\ Becomes(StopProcessReturns(stopping, by, id))
                             /\ pLast' = ReturnedCall(stopping, by, id, "running", "false")
                             /\ UNCHANGED <<alive, stop_ok>>
    /\ UNCHANGED <<build, owner, auto_restarts>>

\* stop_process
StopProcess(id) ==
    /\ StopProcessCall(id, "call")
    /\ UNCHANGED pm_running

\* remove_process: stop_process for a managed id, then the deletion
RemoveProcess(id) ==
    /\ IF id \in DOMAIN processes
       THEN StopProcessCall(id, "remove")
       ELSE /\ pLast' = PCall("remove_process", id, None, "false")
            /\ Becomes(Manager)
            /\ UNCHANGED <<build, alive, termed, owner, auto_restarts, stop_ok>>
    /\ UNCHANGED pm_running

\* ProcessManager.stop up to the first await that suspends, or to its return.
\* ProcIds holds one id, so the loop over self.processes has at most one round.
PmStop ==
    /\ pm_running' = FALSE
    /\ IF DOMAIN processes = {}
       THEN /\ Becomes(StopReturn(Manager))
            /\ pLast' = PCall("stop", None, None, "returned")
            /\ UNCHANGED <<build, alive, termed, owner, auto_restarts, stop_ok>>
       ELSE \E id \in DOMAIN processes : StopProcessCall(id, "stop")

\* the stop_process call c wakes from asyncio.sleep(1): the next
\* psutil.pid_exists, or the else branch of the for loop
StopPoll(c) ==
    /\ c \in 1..Len(stop_calls)
    /\ LET id == stop_calls[c].id
           by == stop_calls[c].by
           ref == stop_calls[c].ref
           pid == Obj(ref, id).pid
           rest == [Manager EXCEPT !.stop_calls = RemoveAt(@, c)]
       IN  IF pid = NoPid
           THEN \* pid_exists(None) / getpgid(None): TypeError, return False
                /\ Becomes(StopProcessReturns(rest, by, id))
                /\ pLast' = ReturnedCall(rest, by, id, "running", "false")
                /\ UNCHANGED <<alive, stop_ok>>
           ELSE IF stop_calls[c].polls < GracePolls /\ pid \in alive
           THEN /\ Becomes([Manager EXCEPT !.stop_calls[c].polls = @ + 1])
                /\ pLast' = PCall("step", None, None, None)
                /\ UNCHANGED <<alive, stop_ok>>
           ELSE \* the process is gone, or SIGKILL after the last check (a
                \* process that is already gone raises ProcessLookupError)
                /\ alive' = alive \ {pid}
                /\ Becomes(StopProcessReturns(StopFinish(rest, id, ref), by, id))
                /\ pLast' = ReturnedCall(rest, by, id, "running", "true")
                /\ stop_ok' = [stop_ok EXCEPT ![id] = TRUE]
    /\ UNCHANGED <<build, pm_running, termed, owner, auto_restarts>>

\* a native process exits
ProcExit(pid) ==
    /\ pid \in alive
    /\ alive' = alive \ {pid}
    /\ pLast' = PCall("step", None, None, None)
    /\ Becomes(Manager)
    /\ UNCHANGED <<build, pm_running, termed, owner, auto_restarts, stop_ok>>

\* _monitor_process from the return of process.wait() to its next
\* suspension or its end, for the task k that holds the object ref: a
\* process that is Stopping was stopped on purpose; any other is Crashed,
\* and then either restart_count += 1 and asyncio.sleep(restart_delay), or
\* Failed
Exited(k, ref) ==
    LET id == owner[k]
        info == Obj(ref, id)
        ended == [Manager EXCEPT !.mon[k] = "done", !.mon_ref[k] = 0]
    IN  IF info.status = "stopping"
        THEN ended
        ELSE IF MayRestart(info)
        THEN SetObj([ended EXCEPT !.mon[k] = "delay"], ref, id,
                    [info EXCEPT !.status = "crashed", !.restart_count = @ + 1])
        ELSE SetObj(ended, ref, id, [info EXCEPT !.status = "failed"])

\* a _monitor_process task runs for the first time: it looks up
\* self.processes[process_id] (a KeyError ends the task) and calls
\* process.wait(), which suspends the task while the native process lives
\* and returns at once when it has exited already
MonitorBegin(k) ==
    /\ k \in 1..Len(mon)
    /\ mon[k] = "created"
    /\ Becomes(IF owner[k] \notin DOMAIN processes
               THEN [Manager EXCEPT !.mon[k] = "done"]
               ELSE IF k \in alive
               THEN [Manager EXCEPT !.mon[k] = "waiting"]
               ELSE Exited(k, 0))
    /\ pLast' = PCall("step", None, None, None)
    /\ UNCHANGED <<build, pm_running, alive, termed, owner, auto_restarts, stop_ok>>

\* the native process of a waiting _monitor_process task has exited:
\* process.wait() returns
MonitorWake(k) ==
    /\ k \in 1..Len(mon)
    /\ mon[k] = "waiting"
    /\ k \notin alive
    /\ Becomes(Exited(k, mon_ref[k]))
    /\ pLast' = PCall("step", None, None, None)
    /\ UNCHANGED <<build, pm_running, alive, termed, owner, auto_restarts, stop_ok>>

\* _monitor_process wakes from asyncio.sleep(restart_delay) and calls
\* start_process, which looks the id up again and runs to its first
\* suspension or its return: a spawn that cannot be made leaves the process
\* Failed and ends the task in this step
MonitorDelayEnd(k, outcome) ==
    /\ k \in 1..Len(mon)
    /\ mon[k] = "delay"
    /\ LET id == owner[k]
       IN  IF id \notin DOMAIN processes
           THEN /\ Becomes([Manager EXCEPT !.mon[k] = "done"])
                /\ pLast' = PCall("restart_begin", id, None, "false")
           ELSE LET info == processes[id]
                IN  IF ~info.config.enabled \/ AlreadyRunning(info)
                    THEN /\ Becomes([Manager EXCEPT !.mon[k] = "done"])
                         /\ pLast' = PCall("restart_begin", id, info.status,
                                           IF info.config.enabled THEN "true" ELSE "false")
                    ELSE IF outcome = "raise"
                    THEN /\ Becomes([Manager EXCEPT !.processes[id].status = "failed",
                                                    !.mon[k] = "done"])
                         /\ pLast' = PCall("restart_begin", id, info.status, "false")
                    ELSE /\ Len(owner) + PendingSpawns < MaxSpawns
                         /\ Becomes([Manager EXCEPT !.processes[id].status = "starting",
                                                    !.mon[k] = "starting"])
                         /\ pLast' = PCall("restart_begin", id, info.status, "pending")
    /\ UNCHANGED <<build, pm_running, alive, termed, owner, auto_restarts, stop_ok>>

\* create_subprocess_shell returns to the monitor's start_process
MonitorSpawn(k) ==
    /\ k \in 1..Len(mon)
    /\ mon[k] = "starting"
    /\ CompleteSpawn([Manager EXCEPT !.mon[k] = "done", !.mon_ref[k] = 0],
                     mon_ref[k], owner[k])
    /\ auto_restarts' = [auto_restarts EXCEPT ![owner[k]] = @ + 1]
    /\ pLast' = PCall("auto_restart", owner[k], "starting", "true")
    /\ UNCHANGED <<build, pm_running, termed, stop_ok>>

\* the text one probe leaves in health_status: response.status == 200, any
\* other response, or an exception of the request
HealthText(outcome) ==
    CASE outcome = "status_200" -> "healthy"
      [] outcome = "status_other" -> "unhealthy (status)"
      [] outcome = "transport_error" -> "unhealthy (error)"

\* a health monitor that marks an unhealthy process as crashed
ProbedCrashes(info, outcome) ==
    IF outcome = "status_200"
    THEN [info EXCEPT !.health_status = HealthText(outcome)]
    ELSE [info EXCEPT !.health_status = HealthText(outcome), !.status = "crashed"]

\* what one probe writes to the ProcessInfo
Probed(info, outcome) == [info EXCEPT !.health_status = HealthText(outcome)]

\* a _health_check_process task runs up to session.get: on its first run the
\* lookup of self.processes[process_id] (a KeyError ends the task) and
\* import aiohttp, then the while test on the object it holds
HealthRequest(k) ==
    /\ k \in 1..Len(hc)
    /\ hc[k] \in {"created", "active"}
    /\ LET id == owner[k]
           ended == [Manager EXCEPT !.hc[k] = "done", !.hc_ref[k] = 0]
       IN  Becomes(
             IF hc[k] = "created" /\ (id \notin DOMAIN processes \/ ~build.aiohttp)
             THEN ended
             ELSE IF pm_running /\ Obj(hc_ref[k], id).status = "running"
             THEN [Manager EXCEPT !.hc[k] = "probing"]
             ELSE ended)
    /\ pLast' = PCall("step", None, None, None)
    /\ UNCHANGED <<build, pm_running, alive, termed, owner, auto_restarts, stop_ok>>

\* the response (or the exception) of the request arrives: health_status is
\* written to the object the task holds, whatever its status is by now, and
\* the task sleeps
HealthProbe(k, outcome) ==
    /\ k \in 1..Len(hc)
    /\ hc[k] = "probing"
    /\ Becomes(SetObj([Manager EXCEPT !.hc[k] = "active"], hc_ref[k], owner[k],
                      Probed(Obj(hc_ref[k], owner[k]), outcome)))
    /\ pLast' = PCall("health_check", None, None, None)
    /\ UNCHANGED <<build, pm_running, alive, termed, owner, auto_restarts, stop_ok>>

\* What psutil reports for a process: memory_info().rss in MB and
\* cpu_percent().
Readings == { [rss |-> 50, cpu |-> 10],
              [rss |-> 200, cpu |-> 10],
              [rss |-> 50, cpu |-> 90] }

\* the processes psutil.Process(pid) finds in this round
Measured ==
    {id \in DOMAIN processes :
        /\ processes[id].status = "running" /\ processes[id].pid # NoPid
        /\ build.psutil /\ processes[id].pid \in alive}

\* config.memory_limit and memory_usage > config.memory_limit, or the same
\* for the CPU: logger.warning is called
OverLimit(config, reading) ==
    \/ config.memory_limit # NoLimit /\ reading.rss > config.memory_limit
    \/ config.cpu_limit # NoLimit /\ reading.cpu > config.cpu_limit

\* mutant: a process over its limit is killed and marked crashed
SampledEnforcesLimit(info, over) ==
    IF over \/ (info.status = "running" /\ info.pid # NoPid
                /\ build.psutil /\ info.pid \notin alive)
    THEN [info EXCEPT !.status = "crashed", !.pid = NoPid]
    ELSE info

\* what one round of _monitor_loop leaves of a process record; over: the
\* round found the process above a limit
Sampled(info, over) ==
    IF info.status = "running" /\ info.pid # NoPid
       /\ build.psutil /\ info.pid \notin alive
    THEN [info EXCEPT !.status = "crashed", !.pid = NoPid]
    ELSE info

\* one round of _monitor_loop over self.processes, with the readings psutil
\* gives for the processes it finds
SampleRound(reads) ==
    LET warned == {id \in Measured : OverLimit(processes[id].config, reads[id])}
    IN  /\ pm_running
        /\ processes' = [id \in DOMAIN processes |->
                            Sampled(processes[id], id \in warned)]
        /\ pLast' = IF warned = {}
                    THEN PCall("step", None, None, None)
                    ELSE PCall("sample_warning", None, None, warned)

Sample ==
    /\ \E reads \in [Measured -> Readings] : SampleRound(reads)
    /\ UNCHANGED <<build, proc_file, stale, monitors, health_checkers, alive, termed,
                   owner, mon, mon_ref, hc, hc_ref, starts, stop_calls, auto_restarts,
                   stop_ok, pm_running>>

(***************************************************************************)
(*                  CronManager (scheduler/cron_manager.py)                *)
(***************************************************************************)

\* Calls of schedule_job, pause_job, resume_job and delete_job the model makes.
MaxCronCalls == 4

\* _execute_job tasks the model lets the loop create.
MaxCronRuns == 2

\* Jobs the registry holds at a time in the runs that let the loop fire.
MaxCronJobs == 1

\* self.check_interval = 60
CheckInterval == 60

\* next_run = None, no loop task
NoTime == 0 - 1

\* The instants the clock takes, in seconds from 00:00:00 of day 0:
\* 08:59:59, 09:00:00 and 09:00:01 of day 0, 09:00:00 of day 1.
CronInstants == <<32399, 32400, 32401, 118800>>

\* The expressions schedule_job is called with: minute and hour are a
\* number or *, day, month and weekday are *; and one with minute 99.
CronExprs == { CronDaily9,                                \* "0 9 * * *"
               <<Star, Star, Star, Star, Star>>,          \* "* * * * *"
               <<Num(30), Star, Star, Star, Star>>,       \* "30 * * * *"
               <<Star, Num(9), Star, Star, Star>>,        \* "* 9 * * *"
               CronBadMinute }                            \* "99 9 * * *"

\* self.task_registry after _register_builtin_tasks
BuiltinTasks == {"browser_navigate", "account_create", "data_scrape",
                 "health_check", "cleanup", "backup"}

\* The task names schedule_job is called with.
TaskNames == {"cleanup", "no_such_task"}

\* croniter(expression) accepts five fields, each * or a number of its range
CroniterAccepts(parts) ==
    /\ Len(parts) = 5
    /\ \A i \in 1..5 :
          parts[i].star \/ parts[i].val \in << 0..59, 0..23, 1..31, 1..12, 0..7 >>[i]

\* croniter(expression, start).get_next(): from the first whole minute after
\* start, forward to the minute and the hour the expression names (day,
\* month and weekday are * in the expressions of the model)
GetNext(parts, t) ==
    LET m0 == (t \div 60 + 1) * 60
        hour0 == (m0 \div 3600) * 3600
        day0 == (m0 \div 86400) * 86400
        minute == parts[1]
        hour == parts[2]
    IN  IF hour.star
        THEN IF minute.star THEN m0
             ELSE IF hour0 + minute.val * 60 >= m0
                  THEN hour0 + minute.val * 60
                  ELSE hour0 + 3600 + minute.val * 60
        ELSE IF minute.star
             THEN IF m0 < day0 + hour.val * 3600 THEN day0 + hour.val * 3600
                  ELSE IF m0 < day0 + hour.val * 3600 + 3600 THEN m0
                  ELSE day0 + 86400 + hour.val * 3600
             ELSE IF day0 + hour.val * 3600 + minute.val * 60 >= m0
                  THEN day0 + hour.val * 3600 + minute.val * 60
                  ELSE day0 + 86400 + hour.val * 3600 + minute.val * 60

\* mutant: the reference time is taken one second early
CalculateNextRunEarly(parts, t) ==
    IF CroniterAccepts(parts) THEN GetNext(parts, t - 1) ELSE NoTime

\* CronJob._calculate_next_run at time t
CalculateNextRun(parts, t) ==
    IF CroniterAccepts(parts) THEN GetNext(parts, t) ELSE NoTime

\* f"job_{datetime.now().strftime('%Y%m%d_%H%M%S')}_{len(self.jobs)}": the
\* second of the call and the size of the registry
CronJobId(t, n) == [second |-> t, n |-> n]

\* CronJob.__init__ at time t; obj tells the objects apart
CronJob(parts, task_name, t, obj) ==
    [cron_expression |-> parts, task_name |-> task_name, is_active |-> TRUE,
     last_run |-> NoTime, next_run |-> CalculateNextRun(parts, t),
     run_count |-> 0, error_count |-> 0, created_at |-> t, obj |-> obj]

\* CronJob.should_run
CronShouldRun(job) ==
    IF ~job.is_active \/ job.next_run = NoTime THEN FALSE
    ELSE cron_now >= job.next_run

\* CronJob.mark_completed
MarkCompleted(job, success) ==
    [job EXCEPT !.last_run = cron_now,
                !.run_count = @ + 1,
                !.error_count = IF success THEN @ ELSE @ + 1,
                !.next_run = CalculateNextRun(job.cron_expression, cron_now)]

CronCall(op, job_id, success) == [op |-> op, job_id |-> job_id, success |-> success]

\* no job id
NoJob == CronJobId(NoTime, 0)

\* CronManager.__init__
CronInit ==
    /\ cron_jobs = EmptyDict
    /\ cron_running = FALSE
    /\ cron_wake = NoTime
    /\ cron_tasks = [o \in 1..MaxCronCalls |-> 0]
    /\ cron_objs = 0
    /\ cron_now = CronInstants[1]
    /\ cron_calls = 0
    /\ cron_last = CronCall("init", NoJob, TRUE)
    /\ task_registry = BuiltinTasks

\* start()
CronStart ==
    /\ IF cron_running
       THEN UNCHANGED <<cron_running, cron_wake>>
       ELSE cron_running' = TRUE /\ cron_wake' = cron_now
    /\ cron_last' = CronCall("start", NoJob, TRUE)
    /\ UNCHANGED <<cron_jobs, cron_tasks, cron_objs, cron_now, cron_calls, task_registry>>

\* stop(): the loop task is cancelled
CronStop ==
    /\ cron_running' = FALSE
    /\ cron_wake' = NoTime
    /\ cron_last' = CronCall("stop", NoJob, TRUE)
    /\ UNCHANGED <<cron_jobs, cron_tasks, cron_objs, cron_now, cron_calls, task_registry>>

\* schedule_job
ScheduleJob(parts, task_name) ==
    /\ cron_calls < MaxCronCalls
    /\ cron_calls' = cron_calls + 1
    /\ IF ~CroniterAccepts(parts) \/ task_name \notin task_registry
       THEN /\ cron_last' = CronCall("schedule_job", NoJob, FALSE)
            /\ UNCHANGED <<cron_jobs, cron_objs>>
       ELSE LET job_id == CronJobId(cron_now, Cardinality(DOMAIN cron_jobs))
            IN  /\ cron_objs' = cron_objs + 1
                /\ cron_jobs' = Put(cron_jobs, job_id,
                                    CronJob(parts, task_name, cron_now, cron_objs'))
                /\ cron_last' = CronCall("schedule_job", job_id, TRUE)
    /\ UNCHANGED <<cron_running, cron_wake, cron_tasks, cron_now, task_registry>>

\* register_task
RegisterTask(task_name) ==
    /\ task_registry' = task_registry \cup {task_name}
    /\ cron_last' = CronCall("register_task", NoJob, TRUE)
    /\ UNCHANGED <<cron_jobs, cron_running, cron_wake, cron_tasks, cron_objs, cron_now,
                   cron_calls>>

\* pause_job
CronPauseJob(job_id) ==
    /\ cron_calls < MaxCronCalls
    /\ cron_calls' = cron_calls + 1
    /\ IF job_id \notin DOMAIN cron_jobs
       THEN /\ cron_last' = CronCall("pause_job", job_id, FALSE)
            /\ UNCHANGED cron_jobs
       ELSE /\ cron_jobs' = [cron_jobs EXCEPT ![job_id].is_active = FALSE]
            /\ cron_last' = CronCall("pause_job", job_id, TRUE)
    /\ UNCHANGED <<cron_running, cron_wake, cron_tasks, cron_objs, cron_now, task_registry>>

\* resume_job
CronResumeJob(job_id) ==
    /\ cron_calls < MaxCronCalls
    /\ cron_calls' = cron_calls + 1
    /\ IF job_id \notin DOMAIN cron_jobs
       THEN /\ cron_last' = CronCall("resume_job", job_id, FALSE)
            /\ UNCHANGED cron_jobs
       ELSE /\ cron_jobs' = [cron_jobs EXCEPT
                               ![job_id].is_active = TRUE,
                               ![job_id].next_run =
                                   CalculateNextRun(cron_jobs[job_id].cron_expression,
                                                    cron_now)]
            /\ cron_last' = CronCall("resume_job", job_id, TRUE)
    /\ UNCHANGED <<cron_running, cron_wake, cron_tasks, cron_objs, cron_now, task_registry>>

\* delete_job
CronDeleteJob(job_id) ==
    /\ cron_calls < MaxCronCalls
    /\ cron_calls' = cron_calls + 1
    /\ IF job_id \notin DOMAIN cron_jobs
       THEN /\ cron_last' = CronCall("delete_job", job_id, FALSE)
            /\ UNCHANGED cron_jobs
       ELSE /\ cron_jobs' = Del(cron_jobs, job_id)
            /\ cron_last' = CronCall("delete_job", job_id, TRUE)
    /\ UNCHANGED <<cron_running, cron_wake, cron_tasks, cron_objs, cron_now, task_registry>>

\* one round of _scheduler_loop: _check_and_run_jobs, then sleep(check_interval)
CronCheck ==
    /\ cron_running
    /\ cron_wake # NoTime
    /\ cron_wake <= cron_now
    /\ LET due == {cron_jobs[id].obj : id \in {i \in DOMAIN cron_jobs : CronShouldRun(cron_jobs[i])}}
           runs == SumOver(cron_tasks, 1..MaxCronCalls)
                     + SumOver([id \in DOMAIN cron_jobs |-> cron_jobs[id].run_count],
                               DOMAIN cron_jobs)
       IN  /\ runs + Cardinality(due) <= MaxCronRuns
           /\ cron_tasks' = [o \in 1..MaxCronCalls |->
                               cron_tasks[o] + (IF o \in due THEN 1 ELSE 0)]
           /\ cron_last' = CronCall(IF due = {} THEN "check" ELSE "check_launched",
                                    NoJob, TRUE)
    /\ cron_wake' = cron_now + CheckInterval
    /\ UNCHANGED <<cron_jobs, cron_running, cron_objs, cron_now, cron_calls, task_registry>>

\* an _execute_job task runs to its end: the task function returns or
\* raises, then mark_completed on the CronJob object the task was created for
CronExecuteJob(o, success) ==
    /\ cron_tasks[o] > 0
    /\ cron_tasks' = [cron_tasks EXCEPT ![o] = @ - 1]
    /\ cron_jobs' = [id \in DOMAIN cron_jobs |->
                        IF cron_jobs[id].obj = o
                        THEN MarkCompleted(cron_jobs[id], success)
                        ELSE cron_jobs[id]]
    /\ cron_last' = CronCall("mark_completed",
                             IF \E id \in DOMAIN cron_jobs : cron_jobs[id].obj = o
                             THEN CHOOSE id \in DOMAIN cron_jobs : cron_jobs[id].obj = o
                             ELSE NoJob,
                             success)
    /\ UNCHANGED <<cron_running, cron_wake, cron_objs, cron_now, cron_calls, task_registry>>

\* time passes
CronAdvance ==
    /\ \E i \in 1..(Len(CronInstants) - 1) :
          cron_now = CronInstants[i] /\ cron_now' = CronInstants[i + 1]
    /\ cron_last' = CronCall("advance", NoJob, TRUE)
    /\ UNCHANGED <<cron_jobs, cron_running, cron_wake, cron_tasks, cron_objs, cron_calls,
                   task_registry>>

(***************************************************************************)
(*                          BackgroundProcessor                            *)
(***************************************************************************)

\* Calls of the BackgroundProcessor interface one behaviour makes.
MaxBgCalls == 4
\* Tasks that end with an exception.
MaxBgErrors == 1
\* Tasks one behaviour creates: one a call at most, and one for each
\* restart by a monitor.
MaxBgTasks == MaxBgCalls + MaxBgErrors

\* process.task = None
NoTask == 0

\* A task is "live", "cancelling" (cancel() requested and not yet
\* delivered), "cancelled", "returned" or "raised" (an Exception).
\* task.done()
TaskDone(task) == task \in {"cancelled", "returned", "raised"}

\* The target functions start_process is called with: a coroutine function,
\* and a plain function, which _start_process hands to run_in_executor.
TargetFuncs == {"coroutine_function", "function"}

\* BackgroundProcess.__init__
BackgroundProcess(target_func, restart_on_failure) ==
    [status |-> "pending", task |-> NoTask, target_func |-> target_func,
     restart_on_failure |-> restart_on_failure, restart_count |-> 0,
     error_count |-> 0]

BgCall(op, ret, who) == [op |-> op, ret |-> ret, who |-> who]

\* a suspended call of stop (pc "await_task" in _stop_process for the
\* process at position pos of the dict, of size n when its loop began;
\* "await_monitor" at await self.monitor_task), of stop_process
\* ("await_task") or of restart_process ("await_task", then "delay" in
\* sleep(5)): the BackgroundProcess, the task or the monitor task it holds
BgSuspended(kind, pc, obj, task, pos, n, monitor) ==
    [kind |-> kind, pc |-> pc, obj |-> obj, task |-> task, pos |-> pos, n |-> n,
     monitor |-> monitor]

\* a _monitor_loop task: its position (pc: "sleep" in the sleep of the loop
\* or not yet run, "delay" in the sleep(5) of _restart_process, "done"), the
\* list its for loop runs over with the index of the process it is
\* restarting, and whether cancel() was called on it
BgMonitor(pc, i, list, cancel) == [pc |-> pc, i |-> i, list |-> list, cancel |-> cancel]

\* the BackgroundProcess objects and the tasks, which the calls change together
Bg == [objects |-> bg_objects, tasks |-> bg_tasks]

\* BackgroundProcessor.__init__
BgInit ==
    /\ bg_processes = << >>
    /\ bg_objects = << >>
    /\ bg_tasks = << >>
    /\ bg_running = FALSE
    /\ bg_monitor_task = 0
    /\ bg_monitors = << >>
    /\ bg_suspended = << >>
    /\ bg_calls = 0
    /\ bg_last = BgCall("init", None, 0)

\* _start_process for the object o: asyncio.create_task of the coroutine of
\* a coroutine function, status running; for a plain function create_task
\* is handed the Future of run_in_executor and raises TypeError: status
\* failed, error_count += 1, and the exception is raised again
StartTask(b, o) ==
    IF b.objects[o].target_func = "coroutine_function"
    THEN [objects |-> [b.objects EXCEPT ![o].task = Len(b.tasks) + 1,
                                        ![o].status = "running"],
          tasks |-> Append(b.tasks, "live")]
    ELSE [objects |-> [b.objects EXCEPT ![o].status = "failed",
                                        ![o].error_count = @ + 1],
          tasks |-> b.tasks]

\* _start_process raises for the object o
StartRaises(b, o) == b.objects[o].target_func # "coroutine_function"

\* process.task and not process.task.done()
TaskLive(b, o) ==
    b.objects[o].task # NoTask /\ ~TaskDone(b.tasks[b.objects[o].task])

\* _stop_process for the object o up to its await or its end: a task that
\* is not done is cancelled and awaited, otherwise the status is stopped
StopTask(b, o) ==
    IF TaskLive(b, o)
    THEN [b EXCEPT !.tasks[b.objects[o].task] = "cancelling"]
    ELSE [b EXCEPT !.objects[o].status = "stopped"]

\* _restart_process for the object o after its sleep(5): _start_process and
\* restart_count += 1, or, when _start_process raises, status failed in the
\* except branch
RestartTask(b, o) ==
    IF StartRaises(b, o)
    THEN StartTask(b, o)
    ELSE [StartTask(b, o) EXCEPT !.objects[o].restart_count = @ + 1]

\* start(): nothing when is_running, else a new monitor task
BgStart ==
    /\ IF bg_running
       THEN UNCHANGED <<bg_running, bg_monitors, bg_monitor_task>>
       ELSE /\ bg_running' = TRUE
            /\ bg_monitors' = Append(bg_monitors, BgMonitor("sleep", 0, << >>, FALSE))
            /\ bg_monitor_task' = Len(bg_monitors) + 1
    /\ bg_last' = BgCall("start", None, 0)
    /\ UNCHANGED <<bg_processes, bg_objects, bg_tasks, bg_suspended>>

\* start_process: a new BackgroundProcess is put in self.processes under
\* str(uuid.uuid4()), an id no process has (at = 0) or the id of the process
\* at position at, and started; a start that raises returns success False
\* and leaves the object in the dict
BgStartProcess(target_func, restart_on_failure, at) ==
    /\ at \in 0..Len(bg_processes)
    /\ LET o == Len(bg_objects) + 1
           created == [Bg EXCEPT !.objects =
                          Append(@, BackgroundProcess(target_func, restart_on_failure))]
           b == StartTask(created, o)
       IN  /\ bg_objects' = b.objects
           /\ bg_tasks' = b.tasks
           /\ bg_processes' = IF at = 0 THEN Append(bg_processes, o)
                              ELSE [bg_processes EXCEPT ![at] = o]
           /\ bg_last' = BgCall("start_process",
                                IF StartRaises(created, o) THEN "false" ELSE "true", 0)
    /\ UNCHANGED <<bg_running, bg_monitor_task, bg_monitors, bg_suspended>>

\* the target function of task t returns or raises
BgTaskEnds(t, outcome) ==
    /\ t \in 1..Len(bg_tasks)
    /\ bg_tasks[t] = "live"
    /\ outcome = "raised"
          => Cardinality({u \in 1..Len(bg_tasks) : bg_tasks[u] = "raised"}) < MaxBgErrors
    /\ bg_tasks' = [bg_tasks EXCEPT ![t] = outcome]
    /\ bg_last' = BgCall("task_ends", outcome, 0)
    /\ UNCHANGED <<bg_processes, bg_objects, bg_running, bg_monitor_task, bg_monitors,
                   bg_suspended>>

\* the CancelledError of task.cancel() is delivered to task t
BgTaskCancelled(t) ==
    /\ t \in 1..Len(bg_tasks)
    /\ bg_tasks[t] = "cancelling"
    /\ bg_tasks' = [bg_tasks EXCEPT ![t] = "cancelled"]
    /\ bg_last' = BgCall("task_ends", "cancelled", 0)
    /\ UNCHANGED <<bg_processes, bg_objects, bg_running, bg_monitor_task, bg_monitors,
                   bg_suspended>>

\* _check_processes on one process, up to the restart decision: a finished
\* task of a running process makes it stopped (result) or failed (exception)
Checked(b, o) ==
    LET p == b.objects[o]
    IN  IF p.status = "running" /\ p.task # NoTask /\ b.tasks[p.task] = "returned"
        THEN [b EXCEPT !.objects[o].status = "stopped"]
        ELSE IF p.status = "running" /\ p.task # NoTask /\ b.tasks[p.task] = "raised"
        THEN [b EXCEPT !.objects[o].status = "failed", !.objects[o].error_count = @ + 1]
        ELSE b

\* a monitor that restarts whatever has ended
RestartsAnyEnd(b, o) ==
    /\ b.objects[o].status = "running"
    /\ b.objects[o].task # NoTask
    /\ b.tasks[b.objects[o].task] \in {"returned", "raised"}

\* _check_processes calls _restart_process for the object o
Restarts(b, o) ==
    /\ b.objects[o].status = "running"
    /\ b.objects[o].task # NoTask
    /\ b.tasks[b.objects[o].task] = "raised"
    /\ b.objects[o].restart_on_failure

\* the for loop of _check_processes over list from index i, up to its next
\* suspension: the sleep(5) of _restart_process for a process (pc "delay":
\* _stop_process has found the task done and set stopped), the sleep of the
\* monitor loop after the last process (pc "sleep"), or the end of the
\* monitor (pc "done": task.result() of a cancelled task raises
\* CancelledError, which only _monitor_loop catches, with break).
\* _health_check_process writes last_health_check only.
RECURSIVE CheckFrom(_, _, _)
CheckFrom(b, list, i) ==
    IF i > Len(list)
    THEN [b |-> b, pc |-> "sleep", i |-> 0]
    ELSE LET p == b.objects[list[i]]
         IN  IF p.status = "running" /\ p.task # NoTask /\ b.tasks[p.task] = "cancelled"
             THEN [b |-> b, pc |-> "done", i |-> 0]
             ELSE IF Restarts(b, list[i])
             THEN [b |-> StopTask(Checked(b, list[i]), list[i]), pc |-> "delay", i |-> i]
             ELSE CheckFrom(Checked(b, list[i]), list, i + 1)

\* a monitor task wakes from the sleep of _monitor_loop (or runs for the
\* first time): the while test, then _check_processes over
\* list(self.processes.values())
BgCheck(m) ==
    /\ m \in 1..Len(bg_monitors)
    /\ bg_monitors[m].pc = "sleep"
    /\ ~bg_monitors[m].cancel
    /\ IF ~bg_running
       THEN /\ bg_monitors' = [bg_monitors EXCEPT ![m] = BgMonitor("done", 0, << >>, FALSE)]
            /\ bg_last' = BgCall("monitor_exit", None, m)
            /\ UNCHANGED <<bg_objects, bg_tasks>>
       ELSE LET r == CheckFrom(Bg, bg_processes, 1)
            IN  /\ bg_objects' = r.b.objects
                /\ bg_tasks' = r.b.tasks
                /\ bg_monitors' = [bg_monitors EXCEPT ![m] =
                                      BgMonitor(r.pc, r.i, bg_processes, FALSE)]
                /\ bg_last' = BgCall("check", r.pc, m)
    /\ UNCHANGED <<bg_processes, bg_running, bg_monitor_task, bg_suspended>>

\* a monitor task wakes from the sleep(5) of _restart_process: the rest of
\* _restart_process, then the rest of the for loop
BgRestartWake(m) ==
    /\ m \in 1..Len(bg_monitors)
    /\ bg_monitors[m].pc = "delay"
    /\ ~bg_monitors[m].cancel
    /\ LET i == bg_monitors[m].i
           list == bg_monitors[m].list
           r == CheckFrom(RestartTask(Bg, list[i]), list, i + 1)
       IN  /\ bg_objects' = r.b.objects
           /\ bg_tasks' = r.b.tasks
           /\ bg_monitors' = [bg_monitors EXCEPT ![m] = BgMonitor(r.pc, r.i, list, FALSE)]
           /\ bg_last' = BgCall("restarted", r.pc, m)
    /\ UNCHANGED <<bg_processes, bg_running, bg_monitor_task, bg_suspended>>

\* the CancelledError of monitor_task.cancel() is delivered to a monitor
\* task in either of its sleeps: _monitor_loop catches it and breaks
BgMonitorCancelled(m) ==
    /\ m \in 1..Len(bg_monitors)
    /\ bg_monitors[m].pc # "done"
    /\ bg_monitors[m].cancel
    /\ bg_monitors' = [bg_monitors EXCEPT ![m] = BgMonitor("done", 0, << >>, FALSE)]
    /\ bg_last' = BgCall("monitor_cancelled", None, m)
    /\ UNCHANGED <<bg_processes, bg_objects, bg_tasks, bg_running, bg_monitor_task,
                   bg_suspended>>

\* the for loop of stop() over self.processes.values() from position pos to
\* its next suspension: _stop_process sets stopped when the task is done,
\* and cancels and awaits a task that is not (pc "await_task"); after the
\* last process stop() goes on to the monitor (pc "monitor")
RECURSIVE StopFrom(_, _)
StopFrom(b, pos) ==
    IF pos > Len(bg_processes)
    THEN [b |-> b, pc |-> "monitor", pos |-> 0]
    ELSE IF TaskLive(b, bg_processes[pos])
    THEN [b |-> StopTask(b, bg_processes[pos]), pc |-> "await_task", pos |-> pos]
    ELSE StopFrom(StopTask(b, bg_processes[pos]), pos + 1)

\* stop() from position pos of its for loop on, for a loop that began on a
\* dict of n entries; others are the other suspended calls. After the loop
\* self.monitor_task.cancel() and await self.monitor_task, which suspends
\* the call unless the monitor task is done.
StopLoop(b, pos, n, others) ==
    LET r == StopFrom(b, pos)
        m == bg_monitor_task
        o == bg_processes[r.pos]
    IN  /\ bg_objects' = r.b.objects
        /\ bg_tasks' = r.b.tasks
        /\ IF r.pc = "await_task"
           THEN /\ bg_suspended' = Append(others, BgSuspended("stop", "await_task", o,
                                                          r.b.objects[o].task, r.pos, n, 0))
                /\ bg_last' = BgCall("stop", "suspended", 0)
                /\ UNCHANGED bg_monitors
           ELSE IF m # 0 /\ bg_monitors[m].pc # "done"
           THEN /\ bg_suspended' = Append(others, BgSuspended("stop", "await_monitor", 0,
                                                          NoTask, 0, n, m))
                /\ bg_monitors' = [bg_monitors EXCEPT ![m].cancel = TRUE]
                /\ bg_last' = BgCall("stop", "suspended", 0)
           ELSE /\ bg_suspended' = others
                /\ bg_last' = BgCall("stop", "returned", 0)
                /\ UNCHANGED bg_monitors

\* stop() is called
BgStop ==
    /\ bg_running' = FALSE
    /\ StopLoop(Bg, 1, Len(bg_processes), bg_suspended)
    /\ UNCHANGED <<bg_processes, bg_monitor_task>>

\* the task a stop() call awaits in _stop_process has ended: status
\* stopped, then the next step of the dict iterator, which raises
\* RuntimeError out of stop() when the dict has changed its size, and the
\* rest of stop()
BgStopResume(c) ==
    /\ c \in 1..Len(bg_suspended)
    /\ bg_suspended[c].kind = "stop"
    /\ bg_suspended[c].pc = "await_task"
    /\ bg_tasks[bg_suspended[c].task] = "cancelled"
    /\ LET b == [Bg EXCEPT !.objects[bg_suspended[c].obj].status = "stopped"]
       IN  IF Len(bg_processes) # bg_suspended[c].n
           THEN /\ bg_objects' = b.objects
                /\ bg_suspended' = RemoveAt(bg_suspended, c)
                /\ bg_last' = BgCall("stop", "raised", 0)
                /\ UNCHANGED <<bg_tasks, bg_monitors>>
           ELSE StopLoop(b, bg_suspended[c].pos + 1, bg_suspended[c].n, RemoveAt(bg_suspended, c))
    /\ UNCHANGED <<bg_processes, bg_running, bg_monitor_task>>

\* the monitor task a stop() call awaits has ended: stop() returns
BgStopReturn(c) ==
    /\ c \in 1..Len(bg_suspended)
    /\ bg_suspended[c].kind = "stop"
    /\ bg_suspended[c].pc = "await_monitor"
    /\ bg_monitors[bg_suspended[c].monitor].pc = "done"
    /\ bg_suspended' = RemoveAt(bg_suspended, c)
    /\ bg_last' = BgCall("stop", "returned", 0)
    /\ UNCHANGED <<bg_processes, bg_objects, bg_tasks, bg_running, bg_monitor_task,
                   bg_monitors>>

\* stop_process(process_id) for the id at position at of the dict (at = 0:
\* an id that is not in it): _stop_process sets stopped when the task is
\* done, and cancels and awaits a task that is not
BgStopProcess(at) ==
    /\ at \in 0..Len(bg_processes)
    /\ IF at = 0
       THEN /\ bg_last' = BgCall("stop_process", "false", 0)
            /\ UNCHANGED <<bg_objects, bg_tasks, bg_suspended>>
       ELSE LET o == bg_processes[at]
                b == StopTask(Bg, o)
            IN  /\ bg_objects' = b.objects
                /\ bg_tasks' = b.tasks
                /\ IF TaskLive(Bg, o)
                   THEN /\ bg_suspended' = Append(bg_suspended,
                              BgSuspended("stop_process", "await_task", o,
                                          bg_objects[o].task, 0, 0, 0))
                        /\ bg_last' = BgCall("stop_process", "suspended", 0)
                   ELSE /\ bg_last' = BgCall("stop_process", "true", 0)
                        /\ UNCHANGED bg_suspended
    /\ UNCHANGED <<bg_processes, bg_running, bg_monitor_task, bg_monitors>>

\* the task a stop_process call awaits has ended: status stopped, and the
\* call returns
BgStopProcessResume(c) ==
    /\ c \in 1..Len(bg_suspended)
    /\ bg_suspended[c].kind = "stop_process"
    /\ bg_tasks[bg_suspended[c].task] = "cancelled"
    /\ bg_objects' = [bg_objects EXCEPT ![bg_suspended[c].obj].status = "stopped"]
    /\ bg_suspended' = RemoveAt(bg_suspended, c)
    /\ bg_last' = BgCall("stop_process", "true", 0)
    /\ UNCHANGED <<bg_processes, bg_tasks, bg_running, bg_monitor_task, bg_monitors>>

\* restart_process(process_id) for the id at position at of the dict (at =
\* 0: an id that is not in it), up to its first suspension: in
\* _stop_process awaiting the task it cancelled, or in sleep(5)
BgRestartProcess(at) ==
    /\ at \in 0..Len(bg_processes)
    /\ IF at = 0
       THEN /\ bg_last' = BgCall("restart_process", "false", 0)
            /\ UNCHANGED <<bg_objects, bg_tasks, bg_suspended>>
       ELSE LET o == bg_processes[at]
                b == StopTask(Bg, o)
            IN  /\ bg_objects' = b.objects
                /\ bg_tasks' = b.tasks
                /\ bg_suspended' = Append(bg_suspended,
                      BgSuspended("restart_process",
                                  IF TaskLive(Bg, o) THEN "await_task" ELSE "delay",
                                  o, bg_objects[o].task, 0, 0, 0))
                /\ bg_last' = BgCall("restart_process", "suspended", 0)
    /\ UNCHANGED <<bg_processes, bg_running, bg_monitor_task, bg_monitors>>

\* the task a restart_process call awaits in _stop_process has ended:
\* status stopped, then sleep(5)
BgRestartProcessResume(c) ==
    /\ c \in 1..Len(bg_suspended)
    /\ bg_suspended[c].kind = "restart_process"
    /\ bg_suspended[c].pc = "await_task"
    /\ bg_tasks[bg_suspended[c].task] = "cancelled"
    /\ bg_objects' = [bg_objects EXCEPT ![bg_suspended[c].obj].status = "stopped"]
    /\ bg_suspended' = [bg_suspended EXCEPT ![c].pc = "delay"]
    /\ bg_last' = BgCall("restart_process", "suspended", 0)
    /\ UNCHANGED <<bg_processes, bg_tasks, bg_running, bg_monitor_task, bg_monitors>>

\* a restart_process call wakes from sleep(5): the rest of
\* _restart_process; restart_process returns success True also when
\* _start_process raised
BgRestartProcessWake(c) ==
    /\ c \in 1..Len(bg_suspended)
    /\ bg_suspended[c].kind = "restart_process"
    /\ bg_suspended[c].pc = "delay"
    /\ LET o == bg_suspended[c].obj
           b == RestartTask(Bg, o)
       IN  /\ bg_objects' = b.objects
           /\ bg_tasks' = b.tasks
    /\ bg_suspended' = RemoveAt(bg_suspended, c)
    /\ bg_last' = BgCall("restart_process", "true", 0)
    /\ UNCHANGED <<bg_processes, bg_running, bg_monitor_task, bg_monitors>>

ProcIdle == ProcInit /\ build.psutil

SpawnOutcomes == {"ok", "raise"}
ProbeOutcomes == {"status_200", "status_other", "transport_error"}

ProcFrame == UNCHANGED <<schedVars, wfVars, cronVars, bgVars, pm_calls>>

\* no task or call of the manager is suspended
NoLiveTask ==
    /\ \A k \in 1..Len(mon) : mon[k] \notin MonLive
    /\ \A k \in 1..Len(hc) : hc[k] \notin HcLive
    /\ PendingSpawns = 0
    /\ stop_calls = << >>

\* The callers of the specifications below call start() once, on a manager
\* none of whose tasks is live, add_process for an id that is not managed,
\* and stop_process and stop() when no stop_process call is suspended; OverlapSpec
\* has the calls without these restrictions.
StartOnce == ~pm_running /\ (proc_file.exists => NoLiveTask) /\ PmStart

AddNew(id, config) == id \notin DOMAIN processes /\ AddProcess(id, config)

StopAlone(id) == stop_calls = << >> /\ StopProcess(id)

StopManager == stop_calls = << >> /\ PmStop

ProcNext ==
    \/ StartOnce /\ ProcFrame
    \/ \E id \in ProcIds, config \in ProcConfigs : AddNew(id, config) /\ ProcFrame
    \/ \E id \in ProcIds, outcome \in SpawnOutcomes : StartProcess(id, outcome) /\ ProcFrame
    \/ \E id \in ProcIds : StartSpawn(id) /\ ProcFrame
    \/ \E id \in ProcIds : StopAlone(id) /\ ProcFrame
    \/ \E c \in 1..MaxSpawns : StopPoll(c) /\ ProcFrame
    \/ \E pid \in alive : ProcExit(pid) /\ ProcFrame
    \/ \E k \in 1..MaxSpawns : MonitorBegin(k) /\ ProcFrame
    \/ \E k \in 1..MaxSpawns : MonitorWake(k) /\ ProcFrame
    \/ \E k \in 1..MaxSpawns, outcome \in SpawnOutcomes : MonitorDelayEnd(k, outcome) /\ ProcFrame
    \/ \E k \in 1..MaxSpawns : MonitorSpawn(k) /\ ProcFrame
    \/ Sample /\ ProcFrame

\* Configurations with a memory or a CPU ceiling, and one without.
LimitConfigs == { Limited(ProcessConfig(TRUE, 1, TRUE, FALSE), 100, NoLimit),
                  Limited(ProcessConfig(FALSE, 1, TRUE, FALSE), NoLimit, 50),
                  ProcessConfig(TRUE, 1, TRUE, FALSE) }

\* the manager with processes that have resource ceilings (and no health
\* check URL, so no health checker exists)
LimitNext ==
    \/ StartOnce /\ ProcFrame
    \/ \E id \in ProcIds, config \in LimitConfigs : AddNew(id, config) /\ ProcFrame
    \/ \E id \in ProcIds, outcome \in SpawnOutcomes : StartProcess(id, outcome) /\ ProcFrame
    \/ \E id \in ProcIds : StartSpawn(id) /\ ProcFrame
    \/ \E id \in ProcIds : StopAlone(id) /\ ProcFrame
    \/ \E c \in 1..MaxSpawns : StopPoll(c) /\ ProcFrame
    \/ \E pid \in alive : ProcExit(pid) /\ ProcFrame
    \/ \E k \in 1..MaxSpawns : MonitorBegin(k) /\ ProcFrame
    \/ \E k \in 1..MaxSpawns : MonitorWake(k) /\ ProcFrame
    \/ \E k \in 1..MaxSpawns, outcome \in SpawnOutcomes : MonitorDelayEnd(k, outcome) /\ ProcFrame
    \/ \E k \in 1..MaxSpawns : MonitorSpawn(k) /\ ProcFrame
    \/ Sample /\ ProcFrame

WfIdle ==
    /\ workflows = EmptyDict
    /\ workflow = << >>
    /\ wf_known = FALSE
    /\ wf_pc = "idle"
    /\ wf_i = 1
    /\ executed_tasks = {}
    /\ results = EmptyDict
    /\ wf_ran = {}
    /\ wf_ok = {}
    /\ wf_ret = None

SchedFrame == UNCHANGED <<wfVars, procVars, cronVars, bgVars>>

SchedNext ==
    \/ Start /\ SchedFrame
    \/ Stop /\ SchedFrame
    \/ \E name \in LateFns : RegisterFunction(name) /\ SchedFrame
    \/ \E j \in JobIds, fn \in ImmediateRequests :
          AddJob(j, fn, EmptyDict, None, DefaultMaxInstances) /\ SchedFrame
    \/ \E j \in JobIds, r \in CronRequests :
          AddCronJob(j, r.fn, r.parts, DefaultMaxInstances) /\ SchedFrame
    \/ \E j \in JobIds, r \in IntervalRequests :
          AddIntervalJob(j, r.fn, r.seconds, r.minutes, r.m) /\ SchedFrame
    \/ \E j \in JobIds, fn \in DateRequests :
          AddDateJob(j, fn, TickSleep, DefaultMaxInstances) /\ SchedFrame
    \/ \E j \in JobIds : RemoveJob(j) /\ SchedFrame
    \/ \E j \in JobIds : PauseJob(j) /\ SchedFrame
    \/ \E j \in JobIds : ResumeJob(j) /\ SchedFrame
    \/ \E j \in JobIds, outcome \in HandlerOutcomes : RunJobNow(j, outcome) /\ SchedFrame
    \/ \E j \in JobIds, outcome \in HandlerOutcomes : ExecStart(j, outcome) /\ SchedFrame
    \/ \E e \in inflight, outcome \in HandlerOutcomes : ExecFinish(e, outcome) /\ SchedFrame
    \/ \E i \in 1..MaxLoops : Tick(i) /\ SchedFrame
    \/ Advance /\ SchedFrame

vars == <<schedVars, wfVars, procVars, cronVars, bgVars>>

\* Each specification starts its own component after construction and the
\* other two idle.
SchedSpecInit == SchedInit /\ WfIdle /\ ProcIdle /\ CronInit /\ BgInit

SchedSpec == SchedSpecInit /\ [][SchedNext]_vars

WfSpecInit == WfInit /\ SchedInit /\ ProcIdle /\ CronInit /\ BgInit

WfSpec == WfSpecInit /\ [][WfNext]_vars

ProcSpecInit == ProcInit /\ SchedInit /\ WfIdle /\ CronInit /\ BgInit

ProcSpec == ProcSpecInit /\ [][ProcNext]_vars

LimitSpec == ProcSpecInit /\ [][LimitNext]_vars

CronFrame == UNCHANGED <<schedVars, wfVars, procVars, bgVars>>

\* the ids pause_job, resume_job and delete_job are called with
CronIdsAsked == DOMAIN cron_jobs \cup {CronJobId(0, 0)}

\* schedule_job and delete_job only, any number of jobs
CronIdNext ==
    \/ \E task_name \in TaskNames : RegisterTask(task_name) /\ CronFrame
    \/ \E parts \in CronExprs, task_name \in TaskNames :
          ScheduleJob(parts, task_name) /\ CronFrame
    \/ \E job_id \in CronIdsAsked : CronDeleteJob(job_id) /\ CronFrame
    \/ CronAdvance /\ CronFrame

\* the whole interface and the loop, with at most MaxCronJobs jobs at a time
CronNext ==
    \/ CronStart /\ CronFrame
    \/ \E task_name \in TaskNames : RegisterTask(task_name) /\ CronFrame
    \/ CronStop /\ CronFrame
    \/ \E parts \in CronExprs, task_name \in TaskNames :
          /\ Cardinality(DOMAIN cron_jobs) < MaxCronJobs
          /\ ScheduleJob(parts, task_name) /\ CronFrame
    \/ \E job_id \in CronIdsAsked : CronPauseJob(job_id) /\ CronFrame
    \/ \E job_id \in CronIdsAsked : CronResumeJob(job_id) /\ CronFrame
    \/ \E job_id \in CronIdsAsked : CronDeleteJob(job_id) /\ CronFrame
    \/ CronCheck /\ CronFrame
    \/ \E o \in 1..MaxCronCalls, success \in BOOLEAN : CronExecuteJob(o, success) /\ CronFrame
    \/ CronAdvance /\ CronFrame

CronSpecInit == CronInit /\ SchedInit /\ WfIdle /\ ProcIdle /\ BgInit

CronSpec == CronSpecInit /\ [][CronNext]_vars

CronIdSpec == CronSpecInit /\ [][CronIdNext]_vars

\* the manager with processes that have a health check URL, restarted by
\* their monitors or by hand; a start_process call is made when no other
\* call is suspended in a spawn
HealthNext ==
    \/ StartOnce /\ ProcFrame
    \/ \E id \in ProcIds, auto_restart \in BOOLEAN :
          AddNew(id, ProcessConfig(auto_restart, 1, TRUE, TRUE)) /\ ProcFrame
    \/ \E id \in ProcIds, outcome \in SpawnOutcomes :
          PendingSpawns = 0 /\ StartProcess(id, outcome) /\ ProcFrame
    \/ \E id \in ProcIds : StartSpawn(id) /\ ProcFrame
    \/ \E pid \in alive : ProcExit(pid) /\ ProcFrame
    \/ \E k \in 1..MaxSpawns : MonitorBegin(k) /\ ProcFrame
    \/ \E k \in 1..MaxSpawns : MonitorWake(k) /\ ProcFrame
    \/ \E k \in 1..MaxSpawns, outcome \in SpawnOutcomes : MonitorDelayEnd(k, outcome) /\ ProcFrame
    \/ \E k \in 1..MaxSpawns : MonitorSpawn(k) /\ ProcFrame
    \/ \E k \in 1..MaxSpawns : HealthRequest(k) /\ ProcFrame
    \/ \E k \in 1..MaxSpawns, outcome \in ProbeOutcomes : HealthProbe(k, outcome) /\ ProcFrame

HealthSpec == ProcSpecInit /\ [][HealthNext]_vars

\* Calls of the ProcessManager interface the caller of OverlapSpec makes.
MaxPmCalls == 4

\* a call of the interface by a caller that makes at most MaxPmCalls calls
CallFrame ==
    /\ pm_calls < MaxPmCalls
    /\ pm_calls' = pm_calls + 1
    /\ UNCHANGED <<schedVars, wfVars, cronVars, bgVars>>

\* the configuration the caller of OverlapSpec gives a process
OverlapConfig == ProcessConfig(TRUE, 1, TRUE, FALSE)

\* The manager under a caller that makes its calls at any time: start() and
\* add_process over live tasks, remove_process, stop_process and stop() while
\* other stop_process calls are suspended.
OverlapNext ==
    \/ PmStart /\ CallFrame
    \/ PmStop /\ CallFrame
    \/ \E id \in ProcIds : AddProcess(id, OverlapConfig) /\ CallFrame
    \/ \E id \in ProcIds : RemoveProcess(id) /\ CallFrame
    \/ \E id \in ProcIds, outcome \in SpawnOutcomes : StartProcess(id, outcome) /\ CallFrame
    \/ \E id \in ProcIds : StopProcess(id) /\ CallFrame
    \/ \E id \in ProcIds : StartSpawn(id) /\ ProcFrame
    \/ \E n \in 1..MaxSpawns : StartSpawnDropped(n) /\ ProcFrame
    \/ \E c \in 1..MaxSpawns : StopPoll(c) /\ ProcFrame
    \/ \E pid \in alive : ProcExit(pid) /\ ProcFrame
    \/ \E k \in 1..MaxSpawns : MonitorBegin(k) /\ ProcFrame
    \/ \E k \in 1..MaxSpawns : MonitorWake(k) /\ ProcFrame
    \/ \E k \in 1..MaxSpawns, outcome \in SpawnOutcomes : MonitorDelayEnd(k, outcome) /\ ProcFrame
    \/ \E k \in 1..MaxSpawns : MonitorSpawn(k) /\ ProcFrame

OverlapSpec == ProcSpecInit /\ [][OverlapNext]_vars

BgFrame == UNCHANGED <<schedVars, wfVars, procVars, cronVars, bg_calls>>

\* a call of the interface by callers that make at most MaxBgCalls calls
BgCallFrame ==
    /\ bg_calls < MaxBgCalls
    /\ bg_calls' = bg_calls + 1
    /\ UNCHANGED <<schedVars, wfVars, procVars, cronVars>>

\* the background processor: its interface is called at any time, also
\* while other calls are suspended; tasks end and the suspended calls and
\* the monitor tasks wake at any time
BgNext ==
    \/ BgStart /\ BgCallFrame
    \/ BgStop /\ BgCallFrame
    \/ \E c \in 1..MaxBgCalls : BgStopResume(c) /\ BgFrame
    \/ \E c \in 1..MaxBgCalls : BgStopReturn(c) /\ BgFrame
    \/ \E at \in 0..MaxBgCalls : BgStopProcess(at) /\ BgCallFrame
    \/ \E c \in 1..MaxBgCalls : BgStopProcessResume(c) /\ BgFrame
    \/ \E at \in 0..MaxBgCalls : BgRestartProcess(at) /\ BgCallFrame
    \/ \E c \in 1..MaxBgCalls : BgRestartProcessResume(c) /\ BgFrame
    \/ \E c \in 1..MaxBgCalls : BgRestartProcessWake(c) /\ BgFrame
    \/ \E target_func \in TargetFuncs, restart_on_failure \in BOOLEAN,
          at \in 0..MaxBgCalls :
          BgStartProcess(target_func, restart_on_failure, at) /\ BgCallFrame
    \/ \E t \in 1..MaxBgTasks, outcome \in {"returned", "raised"} :
          BgTaskEnds(t, outcome) /\ BgFrame
    \/ \E t \in 1..MaxBgTasks : BgTaskCancelled(t) /\ BgFrame
    \/ \E m \in 1..MaxBgCalls : BgCheck(m) /\ BgFrame
    \/ \E m \in 1..MaxBgCalls : BgRestartWake(m) /\ BgFrame
    \/ \E m \in 1..MaxBgCalls : BgMonitorCancelled(m) /\ BgFrame

BgSpecInit == BgInit /\ SchedInit /\ WfIdle /\ ProcIdle /\ CronInit

BgSpec == BgSpecInit /\ [][BgNext]_vars

\* the orchestrator with its job scheduler: workflows are scheduled, their
\* jobs are run, and execute_workflow is also called directly
OrchNext ==
    \/ \E tasks \in ParsedTexts : CreateWorkflowFromText(tasks) /\ WfFrame
    \/ \E j \in JobIds : ScheduleWorkflow(j) /\ SchedFrame
    \/ \E j \in JobIds, outcome \in HandlerOutcomes : RunJobNow(j, outcome) /\ SchedFrame
    \/ Stop /\ SchedFrame
    \/ WfCall /\ WfFrame
    \/ WfSkipTask /\ WfFrame
    \/ WfRunTask /\ WfFrame
    \/ WfTaskReturn /\ WfFrame
    \/ WfReturn /\ WfFrame

ChainABC == << [id |-> "A", deps |-> {}],
               [id |-> "B", deps |-> {"A"}],
               [id |-> "C", deps |-> {"B"}] >>

\* the workflows the orchestrator is set up with: a chain of three tasks,
\* with and without a schedule
OrchInit ==
    /\ WfInitWith({ChainABC}, {<< >>, CronDaily9})
    /\ SchedInit /\ ProcIdle /\ CronInit /\ BgInit

OrchSpec == OrchInit /\ [][OrchNext]_vars


\* C3: execute_task is called for a task only if every id in its dependencies
\* belongs to a task that succeeded earlier in the same run; a task that is
\* not executed gets the dependency failure result; and for [A, B(A), C(B)]
\* with A failing, B and C are short-circuited and 0 of 3 tasks are reported.
C3_DepsGate ==
    /\ \A i \in wf_ran : \A d \in workflow[i].deps :
          \E k \in wf_ok : k < i /\ workflow[k].id = d
    /\ (wf_pc = "loop" /\ wf_i > 1 /\ (wf_i - 1) \notin wf_ran)
          => results[workflow[wf_i - 1].id] = "missing_deps"
    /\ (wf_pc = "done" /\ wf_known /\ workflow = ChainABC /\ 1 \notin wf_ok)
          => /\ wf_ran = {1}
             /\ results["B"] = "missing_deps"
             /\ results["C"] = "missing_deps"
             /\ wf_ret.successful_tasks = 0
             /\ wf_ret.total_tasks = 3

C3_Witness ==
    /\ wf_pc = "done"
    /\ workflow = ChainABC
    /\ wf_ran = {1}
    /\ results["A"] = "failed"
    /\ wf_ret.successful_tasks = 0


(***************************************************************************)
(*                         Claims on the JobScheduler                      *)
(***************************************************************************)

RunningCount(j) ==
    Cardinality({i \in 1..Len(executions[j]) : executions[j][i].status = "running"})

\* C1: for a job with max_instances = m, at no time are more than m of its
\* executions in status running, whatever the interleaving of loop launches
\* and run_job_now calls.
C1_MaxInstances ==
    \A j \in DOMAIN jobs : RunningCount(j) <= jobs[j].max_instances

AddOps == {"add_job", "add_cron_job", "add_interval_job", "add_date_job"}

\* C7: a step of add_job with a handler name that is not registered returns
\* false and changes neither the jobs, nor the execution history, nor the
\* saved registry.
C7_UnknownFunctionRejected ==
    [][ (lastCall'.op \in AddOps /\ lastCall'.fn \notin job_functions)
          => /\ lastCall'.ret = "false"
             /\ jobs' = jobs
             /\ executions' = executions
             /\ saved' = saved ]_vars

C7_Witness ==
    /\ lastCall.op = "add_job"
    /\ lastCall.fn = "ghost_fn"
    /\ lastCall.ret = "false"
    /\ "j1" \in DOMAIN jobs
    /\ Len(executions["j1"]) > 0

\* minute hour day month day_of_week
CronRanges == << <<0, 59>>, <<0, 23>>, <<1, 31>>, <<1, 12>>, <<0, 6>> >>

CronFieldValid(f, i) == f.star \/ (CronRanges[i][1] <= f.val /\ f.val <= CronRanges[i][2])

\* What the specification calls a trigger that can be validated.
TriggerValid(config) ==
    CASE config.trigger_type = "cron" ->
            LET c == config.trigger_config
            IN  /\ CronFieldValid(c.minute, 1) /\ CronFieldValid(c.hour, 2)
                /\ CronFieldValid(c.day, 3) /\ CronFieldValid(c.month, 4)
                /\ CronFieldValid(c.day_of_week, 5)
      [] config.trigger_type = "interval" ->
            \E k \in DOMAIN config.trigger_config : config.trigger_config[k] > 0
      [] OTHER -> TRUE

\* C8: a job whose trigger cannot be validated is rejected when it is added:
\* no add call with such a trigger returns true, and no job in the registry
\* has such a trigger.
C8_InvalidTriggerRejected ==
    \A j \in DOMAIN jobs : TriggerValid(jobs[j])

\* C9: re-adding a job under an id that already exists leaves the execution
\* history of that job unchanged.
C9_ReAddKeepsHistory ==
    [][ (lastCall'.op \in AddOps /\ lastCall'.ret = "true"
           /\ lastCall'.job \in DOMAIN executions)
          => executions'[lastCall'.job] = executions[lastCall'.job] ]_vars

HandlerRaised(c) == c.op \in {"run_job_now", "execute_job", "handler_done"} /\ c.outcome = "raise"

\* C10: when a job handler raises, the record of that execution ends failed
\* with the error text, and the scheduling loop is untouched: the loop tasks
\* and the running flag are what they were.
C10_HandlerExceptionCaught ==
    [][ HandlerRaised(lastCall')
          => /\ loops' = loops
             /\ running' = running
             /\ \A j \in DOMAIN executions' : \A i \in 1..Len(executions'[j]) :
                  executions'[j][i].eid = lastCall'.eid
                    => /\ executions'[j][i].status = "failed"
                       /\ executions'[j][i].error = "handler error" ]_vars

(***************************************************************************)
(*                         ProcessManager properties                       *)
(***************************************************************************)

\* C2: a process with auto_restart and max_restarts = N is restarted by its
\* monitor at most N times between two manual starts.
C2_RestartBudget ==
    \A id \in DOMAIN processes :
        auto_restarts[id] <= processes[id].config.max_restarts

\* C4: a stop_process call that found the process Running returns True and
\* leaves it Stopped, without pid, with no monitor and no health checker
\* registered.
C4_StopEndsStopped ==
    (pLast.op = "stop_process" /\ pLast.pre = "running" /\ pLast.ret # "pending")
        => /\ pLast.ret = "true"
           /\ processes[pLast.id].status = "stopped"
           /\ processes[pLast.id].pid = NoPid
           /\ pLast.id \notin DOMAIN monitors
           /\ pLast.id \notin DOMAIN health_checkers

\* C5: after stop_process returned True and until a start is requested, no
\* monitor restart brings the process back to Running.
C5_StopCancelsRestart ==
    \A id \in DOMAIN processes :
        ~(/\ stop_ok[id]
          /\ pLast.op = "auto_restart" /\ pLast.id = id /\ pLast.ret = "true"
          /\ processes[id].status = "running")

\* C6: a Running record holds a pid, and a record that is Crashed, Failed or
\* Stopped holds none.
C6_PidOnlyWhileRunning ==
    \A id \in DOMAIN processes :
        /\ processes[id].status = "running" => processes[id].pid # NoPid
        /\ processes[id].status \in {"crashed", "failed", "stopped"}
              => processes[id].pid = NoPid

(***************************************************************************)
(*                     JobScheduler properties, continued                  *)
(***************************************************************************)

\* The event loop runs every task that is ready: a created _execute_job task
\* starts and a loop task whose sleep is over wakes.  Nothing in the code
\* makes an awaited handler return.
SchedLiveSpec ==
    /\ SchedSpecInit
    /\ [][SchedNext]_vars
    /\ WF_vars(\E j \in JobIds, outcome \in HandlerOutcomes : ExecStart(j, outcome) /\ SchedFrame)
    /\ WF_vars(\E i \in 1..MaxLoops : Tick(i) /\ SchedFrame)

IsRunning(eid) ==
    \E j \in DOMAIN executions : \E i \in 1..Len(executions[j]) :
        executions[j][i].eid = eid /\ executions[j][i].status = "running"

\* C11: every execution record that is Running eventually is Completed or
\* Failed.
C11_RunningEventuallyEnds ==
    \A eid \in 1..MaxExecs : IsRunning(eid) ~> ~IsRunning(eid)

\* A cron field matches a value of the clock.
CronFieldMatches(f, v) == f = Star \/ f = Num(v)

\* The trigger of an enabled job is due at the clock value t: an immediate job
\* always, an interval job when its interval has passed since its last
\* execution (or it never ran), a date job that has not been launched once
\* its run_date is reached, a cron job when the minute and hour of t match.
TriggerDue(config, j, t) ==
    CASE config.trigger_type = "immediate" -> TRUE
      [] config.trigger_type = "interval" -> ShouldRun(config, j)
      [] config.trigger_type = "date" ->
            /\ "run_date" \in DOMAIN config.trigger_config
            /\ config.trigger_config.run_date <= t
            /\ ~HasLastExecution(executions, j)
            /\ launched[j] = 0
      [] config.trigger_type = "cron" ->
            /\ CronFieldMatches(config.trigger_config.minute, (t \div 60) % 60)
            /\ CronFieldMatches(config.trigger_config.hour, (t \div 3600) % 24)
            /\ \A f \in {"day", "month", "day_of_week"} : config.trigger_config[f] = Star

\* C12: a tick of the running loop launches every enabled job whose trigger
\* is due, whatever its trigger kind.
C12_DueJobsLaunched ==
    [][ lastCall'.op = "tick"
          => \A j \in DOMAIN jobs :
                (jobs[j].enabled /\ TriggerDue(jobs[j], j, now))
                    => launched'[j] = launched[j] + 1 ]_vars

\* ---- saving and loading, with handlers and callers of every kind ----

\* The trigger_config add_job is called with: an empty dict and a dict with
\* the int key 5.
ImmediateConfigs == {EmptyDict, [k \in {"int 5"} |-> 1]}

\* The args add_job is called with: none, a tuple, and a list holding a set.
ArgValues == {None, "tuple", "set"}

RoundTripNext ==
    \/ Start /\ SchedFrame
    \/ Stop /\ SchedFrame
    \/ \E j \in JobIds, fn \in RegisteredFns, config \in ImmediateConfigs,
          args \in ArgValues :
          AddJob(j, fn, config, args, DefaultMaxInstances) /\ SchedFrame
    \/ \E j \in JobIds, r \in IntervalRequests :
          AddIntervalJob(j, r.fn, r.seconds, r.minutes, r.m) /\ SchedFrame
    \/ \E j \in JobIds : PauseJob(j) /\ SchedFrame
    \/ \E j \in JobIds, outcome \in ReturnsAndRaises : RunJobNow(j, outcome) /\ SchedFrame
    \/ \E e \in inflight, outcome \in ReturnsAndRaises : ExecFinish(e, outcome) /\ SchedFrame

RoundTripSpec == SchedSpecInit /\ [][RoundTripNext]_vars

\* the fields of a job the round trip is to reproduce
RoundTripFields(job) ==
    [trigger_type |-> job.trigger_type, trigger_config |-> job.trigger_config,
     enabled |-> job.enabled, max_instances |-> job.max_instances,
     misfire_grace_time |-> job.misfire_grace_time]

\* C13: when stop() has saved the registry, a scheduler that holds nothing
\* and loads jobs.json has the same set of jobs, each with the same trigger
\* kind, trigger parameters, enabled flag, max_instances and misfire grace,
\* and for every job the same execution records in the same order.
C13_SaveLoadRoundTrip ==
    lastCall.op = "stop"
       => /\ DOMAIN LoadedJobs(EmptyDict, saved) = DOMAIN jobs
          /\ \A j \in DOMAIN jobs :
                 RoundTripFields(LoadedJobs(EmptyDict, saved)[j]) = RoundTripFields(jobs[j])
          /\ LoadedExecutions(EmptyDict, saved) = executions

\* ---- a job whose history is almost full ----

\* Lengths of the history the job starts with.
PreloadShort == 2
PreloadLens == (HistoryLimit - PreloadShort)..HistoryLimit

\* n finished records, oldest first; their ids are below those of new records
Preloaded(n) ==
    [i \in 1..n |-> [eid |-> i - n, status |-> "completed",
                     started_at |-> 0, error |-> None, result |-> None]]

\* jobs.json of a scheduler that holds the jobs js with the history ex:
\* as add_job wrote it, before the job had a record (run_job_now does not
\* save); as stop() wrote it; or never written, in a data_dir that cannot
\* be written to
HistFiles(js, ex) ==
    { SaveJobs(js, [j \in DOMAIN js |-> << >>]), SaveJobs(js, ex), NoDir }

\* A scheduler that has added a job and run it n times with run_job_now.
HistInit ==
    /\ \E fn \in RegisteredFns, n \in PreloadLens :
          /\ jobs = [j \in JobIds |-> JobConfig(j, fn, "immediate", EmptyDict, None,
                                                 DefaultMaxInstances)]
          /\ executions = [j \in JobIds |-> Preloaded(n)]
    /\ saved \in HistFiles(jobs, executions)
    /\ running = FALSE
    /\ loops = << >>
    /\ job_functions = RegisteredFns
    /\ launched = [j \in JobIds |-> 0]
    /\ inflight = {}
    /\ nextEid = 1
    /\ now = 0
    /\ calls = 0
    /\ lastCall = Call("init", None, None, None, 0, None)
    /\ WfIdle
    /\ ProcIdle
    /\ CronInit
    /\ BgInit

HistNext ==
    \/ Start /\ SchedFrame
    \/ Stop /\ SchedFrame
    \/ \E j \in JobIds, outcome \in HandlerOutcomes : RunJobNow(j, outcome) /\ SchedFrame
    \/ \E j \in JobIds, outcome \in HandlerOutcomes : ExecStart(j, outcome) /\ SchedFrame
    \/ \E e \in inflight, outcome \in HandlerOutcomes : ExecFinish(e, outcome) /\ SchedFrame
    \/ \E i \in 1..MaxLoops : Tick(i) /\ SchedFrame
    \/ Advance /\ SchedFrame

HistSpec == HistInit /\ [][HistNext]_vars

Eids(seq) == {seq[i].eid : i \in 1..Len(seq)}

\* C15: the retained history of a job never holds more than 100 records.
C15_NeverOverLimit ==
    \A j \in DOMAIN executions : Len(executions[j]) <= HistoryLimit

(***************************************************************************)
(*                   ProcessManager: persistence and stop                  *)
(***************************************************************************)

\* restart counts a processes.json holds
MaxSavedRestarts == 1

\* processes.json as an earlier run of the manager left it: one process
\* that restarts once, saved in any status
PersistedFiles ==
    {SaveProcesses([id \in ProcIds |->
                      [ProcessInfo(ProcessConfig(TRUE, 1, TRUE, FALSE))
                          EXCEPT !.status = st, !.restart_count = r]]) :
        st \in ProcessStatuses, r \in 0..MaxSavedRestarts}

\* A new manager on a data_dir an earlier run has written.
LoadInit ==
    /\ \E file \in PersistedFiles : FreshManager(file)
    /\ SchedInit
    /\ WfIdle
    /\ CronInit
    /\ BgInit

\* start, then start_process and stop_process calls with the tasks they
\* create; every create_subprocess_shell of these behaviours succeeds
LoadNext ==
    \/ StartOnce /\ ProcFrame
    \/ \E id \in ProcIds : StartProcess(id, "ok") /\ ProcFrame
    \/ \E id \in ProcIds : StartSpawn(id) /\ ProcFrame
    \/ \E id \in ProcIds : StopAlone(id) /\ ProcFrame
    \/ \E c \in 1..MaxSpawns : StopPoll(c) /\ ProcFrame
    \/ \E pid \in alive : ProcExit(pid) /\ ProcFrame
    \/ \E k \in 1..MaxSpawns : MonitorBegin(k) /\ ProcFrame
    \/ \E k \in 1..MaxSpawns : MonitorWake(k) /\ ProcFrame
    \/ \E k \in 1..MaxSpawns : MonitorDelayEnd(k, "ok") /\ ProcFrame
    \/ \E k \in 1..MaxSpawns : MonitorSpawn(k) /\ ProcFrame
    \/ Sample /\ ProcFrame

LoadSpec == LoadInit /\ [][LoadNext]_vars

\* the process of a loaded manager was persisted with status st
PersistedAs(st) ==
    \E id \in DOMAIN proc_file.data : proc_file.data[id].status = EnumValue(st)

\* C14: the step in which start() loads processes.json leaves every loaded
\* process Stopped and without a pid, whatever status the file holds for it.
C14_LoadedAreStopped ==
    [][ pLast'.op = "start"
          => \A id \in DOMAIN proc_file.data :
                /\ id \in DOMAIN processes'
                /\ processes'[id].status = "stopped"
                /\ processes'[id].pid = NoPid ]_vars

C14_Witness ==
    /\ pLast.op = "start"
    /\ PersistedAs("running")
    /\ \E id \in DOMAIN processes : processes[id].status = "stopped"

\* A new manager on a data_dir that holds one stopped process.
StopInit ==
    /\ FreshManager(SaveProcesses([id \in ProcIds |->
                                     ProcessInfo(ProcessConfig(TRUE, 1, TRUE, FALSE))]))
    /\ SchedInit
    /\ WfIdle
    /\ CronInit
    /\ BgInit

\* start and stop of the manager with the calls and tasks of its process;
\* every create_subprocess_shell of these behaviours succeeds
StopNext ==
    \/ StartOnce /\ ProcFrame
    \/ StopManager /\ ProcFrame
    \/ \E id \in ProcIds : StartProcess(id, "ok") /\ ProcFrame
    \/ \E id \in ProcIds : StartSpawn(id) /\ ProcFrame
    \/ \E id \in ProcIds : StopAlone(id) /\ ProcFrame
    \/ \E c \in 1..MaxSpawns : StopPoll(c) /\ ProcFrame
    \/ \E pid \in alive : ProcExit(pid) /\ ProcFrame
    \/ \E k \in 1..MaxSpawns : MonitorBegin(k) /\ ProcFrame
    \/ \E k \in 1..MaxSpawns : MonitorWake(k) /\ ProcFrame
    \/ \E k \in 1..MaxSpawns : MonitorDelayEnd(k, "ok") /\ ProcFrame
    \/ \E k \in 1..MaxSpawns : MonitorSpawn(k) /\ ProcFrame
    \/ Sample /\ ProcFrame

StopSpec == StopInit /\ [][StopNext]_vars

\* ProcessManager.stop() has just returned
StopReturned == pLast.op = "stop" /\ pLast.ret = "returned"

\* C17: when ProcessManager.stop() returns, no process is Running and no
\* _monitor_process or _health_check_process task is still active.
C17_StopLeavesNothingActive ==
    StopReturned
        => /\ \A id \in DOMAIN processes : processes[id].status # "running"
           /\ \A k \in 1..Len(mon) : mon[k] \notin MonLive
           /\ \A k \in 1..Len(hc) : hc[k] \notin HcLive

(***************************************************************************)
(*                    ProcessManager properties, continued                 *)
(***************************************************************************)

\* the transitions of the process state machine
ListedEdges ==
    {<<"stopped", "starting">>, <<"starting", "running">>,
     <<"running", "stopping">>, <<"stopping", "stopped">>,
     <<"running", "crashed">>, <<"crashed", "starting">>,
     <<"crashed", "failed">>, <<"failed", "starting">>}

\* two listed transitions the code makes without an await between them
\* (stop_process of a process that is gone; the monitor of a process that
\* may not restart)
TwoEdgeSteps == {<<"running", "stopped">>, <<"running", "failed">>}

\* C16: the status of a process changes only along the listed transitions.
C16_OnlyListedEdges ==
    [][ \A id \in DOMAIN processes \cap DOMAIN processes' :
           processes'[id].status # processes[id].status
              => <<processes[id].status, processes'[id].status>>
                     \in ListedEdges \cup TwoEdgeSteps ]_vars

\* what the ProcessManager and the operating system hold (the remaining
\* process variables only record what was called)
pmState == <<pm_running, processes, stale, monitors, health_checkers, alive, termed,
             owner, mon, mon_ref, hc, hc_ref, starts, stop_calls, proc_file>>

\* the step is a start_process(id) call that finds the process in status st
StartCallOn(id, st) ==
    /\ pLast'.op = "start_process"
    /\ pLast'.id = id
    /\ id \in DOMAIN processes
    /\ processes[id].status = st

\* C19: start_process on a Running process returns True and changes nothing;
\* start_process on a process whose config is disabled returns False and
\* changes nothing.
C19_StartIsNoOp ==
    [][ \A id \in ProcIds :
          /\ (StartCallOn(id, "running") /\ processes[id].config.enabled)
                => pLast'.ret = "true" /\ UNCHANGED pmState
          /\ (\E st \in ProcessStatuses : StartCallOn(id, st) /\ ~processes[id].config.enabled)
                => pLast'.ret = "false" /\ UNCHANGED pmState ]_vars

C19_Witness ==
    /\ pLast.op = "start_process"
    /\ pLast.pre = "running"
    /\ pLast.ret = "true"
    /\ processes[pLast.id].status = "running"
    /\ processes[pLast.id].pid \in alive

\* a ProcessInfo without its health_status
NoHealth(info) == [info EXCEPT !.health_status = None]

\* C20: a round of the health monitor changes nothing but the health state:
\* status, pid and restart_count of every process stay as they are, and
\* no spawn, stop or restart begins, whatever the probe returned.
C20_HealthOnlyObserves ==
    [][ pLast'.op = "health_check"
          => /\ DOMAIN processes' = DOMAIN processes
             /\ \A id \in DOMAIN processes :
                    NoHealth(processes'[id]) = NoHealth(processes[id])
             /\ Len(stale') = Len(stale)
             /\ \A n \in 1..Len(stale) :
                    [stale'[n] EXCEPT !.info = NoHealth(@)]
                       = [stale[n] EXCEPT !.info = NoHealth(@)]
             /\ UNCHANGED <<pm_running, monitors, health_checkers, alive, termed,
                            owner, mon, mon_ref, starts, stop_calls, proc_file>> ]_vars

C20_Witness ==
    /\ pLast.op = "health_check"
    /\ \E id \in DOMAIN processes :
          /\ processes[id].health_status = HealthText("transport_error")
          /\ processes[id].status = "running"
          /\ processes[id].pid \in alive

(***************************************************************************)
(*                 execute_workflow properties, continued                  *)
(***************************************************************************)

\* C18: execute_workflow of a known workflow returns a summary with the
\* total number of tasks and the number of successful ones, and reports
\* success exactly when execute_task succeeded for every task.
C18_SuccessIffAllTasksSucceeded ==
    (wf_pc = "done" /\ wf_known)
        => /\ {"success", "total_tasks", "successful_tasks"} \subseteq DOMAIN wf_ret
           /\ wf_ret.total_tasks = Len(workflow)
           /\ wf_ret.successful_tasks = Cardinality(wf_ok)
           /\ wf_ret.success <=> (wf_ok = 1..Len(workflow))

\* a dependency of the task at index i that no earlier index declares: it is
\* declared later, is the task itself, or is not in the workflow
DeclaredLater(i) ==
    {d \in workflow[i].deps : \A k \in 1..(i - 1) : workflow[k].id # d}

BAfterA == << [id |-> "A", deps |-> {"B"}], [id |-> "B", deps |-> {}] >>

\* C30: execute_workflow handles the tasks in declaration order, each index
\* once: the loop handles index wf_i and then moves to wf_i + 1, execute_task
\* is called for no other index and at most once for wf_i, and the return of
\* the call moves the loop on. A task with a dependency that
\* is declared only after it gets the dependency failure when its turn
\* comes and is never executed later in the run.
C30_DeclarationOrderNoDeferral ==
    [][ /\ wf_i' \in {wf_i, wf_i + 1}
        /\ wf_ran \subseteq wf_ran'
        /\ wf_ran' \ wf_ran \subseteq {wf_i}
        /\ wf_ran' # wf_ran => (wf_i \notin wf_ran /\ wf_pc' = "await" /\ wf_i' = wf_i)
        /\ (wf_pc = "await" /\ wf_pc' # "await") => (wf_i' = wf_i + 1 /\ wf_ran' = wf_ran)
        /\ (wf_i' = wf_i + 1 /\ DeclaredLater(wf_i) # {})
              => /\ wf_ran' = wf_ran
                 /\ executed_tasks' = executed_tasks
                 /\ results'[workflow[wf_i].id] = "missing_deps" ]_vars

C30_Witness ==
    /\ wf_pc = "done"
    /\ workflow = BAfterA
    /\ wf_ran = {2}
    /\ results["A"] = "missing_deps"
    /\ results["B"] = "ok"

(***************************************************************************)
(*                  JobScheduler properties, continued                     *)
(***************************************************************************)

AdminOps == AddOps \cup {"remove_job", "pause_job", "resume_job"}

\* C27: when add_job, remove_job, pause_job or resume_job has returned True,
\* jobs.json holds the jobs of the in-memory registry (a missing file holds
\* none) with the same enabled flags.
C27_SnapshotEqualsRegistry ==
    (lastCall.op \in AdminOps /\ lastCall.ret = "true")
        => /\ DOMAIN saved.jobs = DOMAIN jobs
           /\ \A j \in DOMAIN jobs : saved.jobs[j].enabled = jobs[j].enabled

\* the scheduling loop creates a task for job j in this step
LoopLaunches(j) == lastCall'.op = "tick" /\ launched'[j] > launched[j]

\* C23: the loop launches an interval job of duration d > 0 only at a time
\* that is exactly d after its previous run started, and its first run no
\* earlier than d after the job was added (the clock starts at 0, so no
\* earlier than time d).
C23_IntervalFireTimes ==
    [][\A j \in DOMAIN jobs :
          (/\ LoopLaunches(j)
           /\ jobs[j].trigger_type = "interval"
           /\ CalculateIntervalSeconds(jobs[j].trigger_config) > 0)
          => LET d == CalculateIntervalSeconds(jobs[j].trigger_config)
             IN  IF HasLastExecution(executions, j)
                 THEN now = GetLastExecution(executions, j).started_at + d
                 ELSE now >= d]_vars

\* C25: resume_job of a paused interval job recomputes the next fire time
\* from the time of the call: a pass of the loop made right after the call,
\* at that same time, does not launch the run that became due during the
\* pause.
C25_ResumeSkipsMissedFire ==
    [][(/\ lastCall.op = "resume_job"
        /\ lastCall.outcome = "was_paused"
        /\ jobs[lastCall.job].trigger_type = "interval"
        /\ CalculateIntervalSeconds(jobs[lastCall.job].trigger_config) > 0
        /\ HasLastExecution(executions, lastCall.job)
        /\ lastCall'.op = "tick")
       => launched'[lastCall.job] = launched[lastCall.job]]_vars

\* Clock horizon, in passes of the loop, of the runs that let a wake-up of
\* the loop come late.
MaxLateTicks == 7

\* an interval job every minute with the default grace, and a loop whose
\* wake-ups may be delayed
LateNext ==
    \/ Start /\ SchedFrame
    \/ Stop /\ SchedFrame
    \/ \E j \in JobIds :
          AddIntervalJob(j, "async_fn", 0, 1, DefaultMaxInstances) /\ SchedFrame
    \/ \E j \in JobIds, outcome \in HandlerOutcomes : ExecStart(j, outcome) /\ SchedFrame
    \/ \E e \in inflight, outcome \in HandlerOutcomes : ExecFinish(e, outcome) /\ SchedFrame
    \/ \E i \in 1..MaxLoops : Tick(i) /\ SchedFrame
    \/ AdvanceTo(MaxLateTicks * TickSleep) /\ SchedFrame

LateSpec == SchedSpecInit /\ [][LateNext]_vars

\* C26: the loop launches no run of an interval job whose lateness, the
\* current time minus the time the run became due (the start of the last run
\* plus the interval), exceeds the job's misfire_grace_time.
C26_NoLaunchBeyondGrace ==
    [][\A j \in DOMAIN jobs :
          (/\ LoopLaunches(j)
           /\ jobs[j].trigger_type = "interval"
           /\ HasLastExecution(executions, j))
          => now - (GetLastExecution(executions, j).started_at
                      + CalculateIntervalSeconds(jobs[j].trigger_config))
               <= jobs[j].misfire_grace_time]_vars

\* Calls of start() in the runs that start the scheduler again while it is
\* running.
MaxStarts == 2

\* immediate jobs, each id added once, and a scheduler that may be started
\* more than once
RestartNext ==
    \/ StartCall(MaxStarts) /\ SchedFrame
    \/ Stop /\ SchedFrame
    \/ \E j \in JobIds \ DOMAIN jobs :
          AddJob(j, "async_fn", EmptyDict, None, DefaultMaxInstances) /\ SchedFrame
    \/ \E j \in JobIds, outcome \in HandlerOutcomes : ExecStart(j, outcome) /\ SchedFrame
    \/ \E e \in inflight, outcome \in HandlerOutcomes : ExecFinish(e, outcome) /\ SchedFrame
    \/ \E i \in 1..MaxStarts : Tick(i) /\ SchedFrame
    \/ Advance /\ SchedFrame

RestartSpec == SchedSpecInit /\ [][RestartNext]_vars

\* C22: the loop launches an immediate job once: a pass of the loop does not
\* launch a job that an earlier pass has launched already (its task is
\* pending, running, or has left an execution record).
C22_ImmediateLaunchedOnce ==
    [][\A j \in DOMAIN jobs :
          (LoopLaunches(j) /\ jobs[j].trigger_type = "immediate")
          => /\ launched[j] = 0
             /\ ~HasLastExecution(executions, j)
             /\ \A e \in inflight : e.job # j]_vars

(***************************************************************************)
(*                       Persistence that can fail                         *)
(***************************************************************************)

\* a JobScheduler and a ProcessManager constructed on data directories that
\* can or cannot be written
DiskInit ==
    \E file \in {NoFile, NoDir}, pfile \in {NoProcFile, NoProcDir} :
        SchedInitWith(file) /\ FreshManager(pfile) /\ WfIdle /\ CronInit /\ BgInit

DiskNext ==
    \/ \E j \in JobIds, fn \in ImmediateRequests :
          AddJob(j, fn, EmptyDict, None, DefaultMaxInstances) /\ SchedFrame
    \/ \E j \in JobIds, r \in IntervalRequests :
          AddIntervalJob(j, r.fn, r.seconds, r.minutes, r.m) /\ SchedFrame
    \/ \E j \in JobIds : RemoveJob(j) /\ SchedFrame
    \/ \E id \in ProcIds, config \in ProcConfigs : AddProcess(id, config) /\ ProcFrame

DiskSpec == DiskInit /\ [][DiskNext]_vars

\* C28: add_job, remove_job and add_process return True only when the
\* snapshot of the registry they changed has been written: the file then
\* holds what _save_jobs / _save_processes writes for the current registry.
C28_SuccessMeansSaved ==
    /\ (lastCall.op \in AddOps \cup {"remove_job"} /\ lastCall.ret = "true")
          => saved = SaveJobs(jobs, executions)
    /\ (pLast.op = "add_process" /\ pLast.ret = "true")
          => proc_file = SaveProcesses(processes)

(***************************************************************************)
(*                        Resource ceilings                                *)
(***************************************************************************)

\* C21: a round of the resource sampler that finds a Running process above
\* its memory or CPU ceiling emits the warning and nothing else: the status,
\* pid and restart_count of the process are as before, the native process
\* is still alive and has not been sent a signal, and no stop or restart of
\* it has been started.
C21_OverLimitOnlyWarns ==
    [][ pLast'.op = "sample_warning"
        => \A id \in pLast'.ret :
             /\ processes[id].status = "running"
             /\ processes'[id].status = "running"
             /\ processes'[id].pid = processes[id].pid
             /\ processes'[id].restart_count = processes[id].restart_count
             /\ processes'[id].pid \in alive'
             /\ alive' = alive
             /\ termed' = termed
             /\ stop_calls' = stop_calls
             /\ starts' = starts
             /\ mon' = mon ]_vars

C21_Witness ==
    /\ pLast.op = "sample_warning"
    /\ "p" \in pLast.ret
    /\ processes["p"].status = "running"
    /\ processes["p"].config.memory_limit = 100
    /\ processes["p"].pid \in alive

(***************************************************************************)
(*                         CronManager properties                          *)
(***************************************************************************)

\* time m, in seconds, is a whole minute whose minute and hour the
\* expression names (day, month and weekday are * in the model)
CronMatches(parts, m) ==
    /\ m % 60 = 0
    /\ CronFieldMatches(parts[1], (m \div 60) % 60)
    /\ CronFieldMatches(parts[2], (m \div 3600) % 24)

\* the call that made the last step computed the next run of a job that is
\* in the registry
NextRunComputed ==
    /\ cron_last.op \in {"schedule_job", "resume_job", "mark_completed"}
    /\ cron_last.job_id \in DOMAIN cron_jobs

\* C24: the next run computed for a cron job at time t is the smallest time
\* after t that matches the expression: it is later than t, it matches, and
\* no whole minute between t and it matches. For "0 9 * * *" computed at
\* 09:00:01 of day 0 it is 09:00:00 of day 1.
C24_NextRunIsSmallestMatch ==
    NextRunComputed
        => LET job == cron_jobs[cron_last.job_id]
               r == job.next_run
           IN  /\ r > cron_now
               /\ CronMatches(job.cron_expression, r)
               /\ \A k \in (cron_now \div 60)..(r \div 60) :
                     (cron_now < k * 60 /\ k * 60 < r)
                        => ~CronMatches(job.cron_expression, k * 60)
               /\ (job.cron_expression = CronDaily9 /\ cron_now = 9 * 3600 + 1)
                     => r = 86400 + 9 * 3600

C24_Witness ==
    /\ NextRunComputed
    /\ cron_last.op = "mark_completed"
    /\ cron_now = 9 * 3600 + 1
    /\ cron_jobs[cron_last.job_id].cron_expression = CronDaily9
    /\ cron_jobs[cron_last.job_id].run_count = 1
    /\ cron_jobs[cron_last.job_id].next_run = 86400 + 9 * 3600

\* C29: a schedule_job call that succeeds returns a job id that was not in
\* the registry when it was called, so it adds a job and replaces none.
C29_FreshJobId ==
    [][(cron_last'.op = "schedule_job" /\ cron_last'.success)
          => /\ cron_last'.job_id \notin DOMAIN cron_jobs
             /\ Cardinality(DOMAIN cron_jobs') = Cardinality(DOMAIN cron_jobs) + 1]_vars

(***************************************************************************)
(*                        Overlapping calls                                *)
(***************************************************************************)

\* native processes spawned for id that exist
LiveNatives(id) == {pid \in alive : owner[pid] = id}

\* C31: start_process does not go into the spawn for an id whose process is
\* being started or has a live native process, so when a spawn of
\* start_process has returned, exactly one native process and one wait
\* monitor exist for the id.
C31_OneNativePerStart ==
    [][ /\ (pLast'.op = "start_process" /\ pLast'.ret = "pending")
            => (pLast'.pre # "starting" /\ LiveNatives(pLast'.id) = {})
        /\ (pLast'.op = "start_spawn" /\ pLast'.ret = "true")
            => /\ Cardinality({pid \in alive' : owner'[pid] = pLast'.id}) = 1
               /\ Cardinality({k \in 1..Len(mon') :
                                 owner'[k] = pLast'.id /\ mon'[k] \in MonLive}) = 1 ]_vars

\* C32: whatever start and stop calls were made, at most one
\* _basic_scheduler_loop task exists, so one pass over the jobs is made per
\* tick.
C32_AtMostOneLoop == Len(loops) <= 1

(***************************************************************************)
(*                      CronManager: one run per fire time                 *)
(***************************************************************************)

\* C33: no CronJob has two _execute_job tasks that have not finished: a
\* check of the loop does not launch a job whose earlier launch is still in
\* flight.
C33_OneExecutionInFlight == \A o \in DOMAIN cron_tasks : cron_tasks[o] <= 1

(***************************************************************************)
(*                   Executions of a job that was removed                  *)
(***************************************************************************)

\* C34: when the handler of an execution returns or raises after the job
\* was removed, or removed and added again, the rest of _execute_job runs
\* to its end without an error leaving it.
C34_InFlightSurvivesRemoval ==
    [][ (lastCall'.op = "handler_done"
           /\ \E e \in inflight :
                 /\ e.eid = lastCall'.eid
                 /\ \/ e.job \notin DOMAIN jobs
                    \/ \A i \in 1..Len(executions[e.job]) : executions[e.job][i].eid # e.eid)
          => lastCall'.ret = "true" ]_vars

(***************************************************************************)
(*                         Scheduled workflows                             *)
(***************************************************************************)

\* the step ended an execution of job j with a Completed record
CompletedNow(j) ==
    /\ lastCall'.op \in {"run_job_now", "execute_job", "handler_done"}
    /\ lastCall'.job = j
    /\ j \in DOMAIN executions'
    /\ \E i \in 1..Len(executions'[j]) :
          /\ executions'[j][i].eid = lastCall'.eid
          /\ executions'[j][i].status = "completed"

\* C35: when the job of a scheduled workflow is executed, its record becomes
\* Completed only once execute_workflow has run to its end, after handling
\* every task of the workflow.
C35_ScheduledWorkflowRuns ==
    [][\A j \in DOMAIN jobs :
          (/\ jobs[j].function = WorkflowFn
           /\ WfId \in DOMAIN workflows
           /\ Len(workflows[WfId].tasks) > 0
           /\ CompletedNow(j))
             => /\ wf_pc' = "done"
                /\ wf_known'
                /\ wf_i' > Len(workflow') ]_vars

(***************************************************************************)
(*                       One health monitor per process                    *)
(***************************************************************************)

\* C36: when a process is started again after its earlier run has ended (no
\* native process of it is alive, the wait monitors of its earlier runs
\* have seen the exit, and no other spawn is pending), the
\* _health_check_process tasks that probed its earlier runs have ended when
\* the new run is Running: only the task of the new run probes.
C36_NoStaleHealthMonitor ==
    [][ (/\ pLast'.op \in {"start_spawn", "auto_restart"}
         /\ pLast'.ret = "true"
         /\ pm_running
         /\ build.aiohttp
         /\ LiveNatives(pLast'.id) = {}
         /\ \A k \in 1..Len(mon) :
               owner[k] = pLast'.id => mon[k] \notin {"created", "waiting", "delay"}
         /\ PendingSpawns = 1)
          => \A k \in 1..Len(hc) : owner[k] = pLast'.id => hc'[k] \notin HcHolds ]_vars

(***************************************************************************)
(*                     BackgroundProcessor properties                      *)
(***************************************************************************)

\* C37: when stop() has returned, no process has status running and no
\* process has a task that is not done.
C37_StopLeavesNothingRunning ==
    (bg_last.op = "stop" /\ bg_last.ret = "returned")
       => \A k \in 1..Len(bg_processes) :
             /\ bg_objects[bg_processes[k]].status # "running"
             /\ ~TaskLive(Bg, bg_processes[k])

\* the step is a pass of a monitor task over the processes
MonitorPass == bg_last'.op \in {"check", "restarted"}

\* the monitor task whose pass the step is
PassMonitor == bg_last'.who

\* the positions of its list the pass of this step inspected: from the
\* first one (or from the one after the restarted process) to the one whose
\* restart it began, or to the last one
Inspected ==
    {j \in 1..Len(bg_monitors'[PassMonitor].list) :
        /\ j >= (IF bg_last'.op = "restarted" THEN bg_monitors[PassMonitor].i + 1 ELSE 1)
        /\ bg_monitors'[PassMonitor].pc = "delay" => j <= bg_monitors'[PassMonitor].i
        /\ bg_monitors'[PassMonitor].pc # "done"}

\* the task of the object o in the tasks ts is in the state s
TaskIs(os, ts, o, s) == os[o].task # NoTask /\ ts[os[o].task] = s

C38_PausedJobDoesNotRun ==
    [][\A j \in DOMAIN jobs :
          ~jobs[j].enabled
             => /\ (j \in DOMAIN executions /\ j \in DOMAIN executions')
                      => Eids(executions'[j]) \subseteq Eids(executions[j])
                /\ (j \in DOMAIN jobs' /\ jobs'[j].enabled)
                      => lastCall'.op \in AddOps \cup {"resume_job"} ]_vars


(***************************************************************************)
(*          C39: restart_count stays within the restart budget             *)
(***************************************************************************)

\* C39: in every reachable state of the process supervisor the restart_count
\* of every process is at least 0 and at most the max_restarts of its
\* configuration, whatever crashes, automatic restarts, manual starts and
\* stops have happened.
C39_RestartCountWithinBudget ==
    \A id \in DOMAIN processes :
        /\ processes[id].restart_count >= 0
        /\ processes[id].restart_count <= processes[id].config.max_restarts

\* a process whose monitor used the whole budget and that ended failed
C39_Witness ==
    \E id \in DOMAIN processes :
        /\ processes[id].config.max_restarts >= 1
        /\ processes[id].restart_count = processes[id].config.max_restarts
        /\ processes[id].status = "failed"
        /\ auto_restarts[id] >= 1

=============================================================================
